---- MODULE Spec2Model ----
(***************************************************************************)
(* State-machine model of the land-subsidence prediction application:      *)
(* the data-processing utilities (utils/dataProcessing.ts), the simulated  *)
(* data loader (utils/dataLoader.ts), the risk classifier and the          *)
(* simulated PLSTM training runs (utils/plstm.ts and the training          *)
(* components).                                                            *)
(*                                                                         *)
(* JavaScript numbers are modelled as extended rationals: a finite value   *)
(* n/d in lowest terms, NaN, +Infinity, -Infinity, and `undefined` for a   *)
(* field an object does not carry.  Arithmetic is exact (no rounding).     *)
(***************************************************************************)
EXTENDS Integers, Sequences, FiniteSets, TLC

(***************************************************************************)
(* Bounds of the model                                                     *)
(***************************************************************************)
MaxLen == 3
MaxWindow == 2
MaxDays == 2
NumDistricts == 1
MaxEpochs == 5
MaxPoints == 3
MaxRerunEpochs == 1
MaxRuns == 2

(***************************************************************************)
(* JavaScript numbers                                                      *)
(***************************************************************************)
AbsInt(i) == IF i < 0 THEN -i ELSE i

RECURSIVE GCD(_, _)
GCD(a, b) == IF b = 0 THEN a ELSE GCD(b, a % b)

\* the rational n/d (d # 0) in lowest terms with a positive denominator
Rat(n, d) ==
  LET g == GCD(AbsInt(n), AbsInt(d))
      s == IF d < 0 THEN -1 ELSE 1
  IN  [k |-> "fin", n |-> (s * n) \div g, d |-> (s * d) \div g]

Fin(n) == [k |-> "fin", n |-> n, d |-> 1]
NaN == [k |-> "nan", n |-> 0, d |-> 1]
PosInf == [k |-> "inf", n |-> 1, d |-> 1]
NegInf == [k |-> "inf", n |-> -1, d |-> 1]
Undefined == [k |-> "undef", n |-> 0, d |-> 1]

SignOf(x) == IF x.n > 0 THEN 1 ELSE IF x.n < 0 THEN -1 ELSE 0
InfOf(s) == IF s > 0 THEN PosInf ELSE NegInf

\* isNaN(x): ToNumber(undefined) is NaN
isNaN(x) == x.k \in {"nan", "undef"}

\* Math.abs(x)
MathAbs(x) ==
  IF isNaN(x) THEN NaN
  ELSE IF x.k = "inf" THEN PosInf
  ELSE [k |-> "fin", n |-> AbsInt(x.n), d |-> x.d]

\* a + b
NumAdd(a, b) ==
  IF isNaN(a) \/ isNaN(b) THEN NaN
  ELSE IF a.k = "inf" /\ b.k = "inf" THEN (IF a.n = b.n THEN a ELSE NaN)
  ELSE IF a.k = "inf" THEN a
  ELSE IF b.k = "inf" THEN b
  ELSE LET g == GCD(a.d, b.d)
       IN  Rat(a.n * (b.d \div g) + b.n * (a.d \div g), (a.d \div g) * b.d)

\* -a
NumNeg(a) == IF isNaN(a) THEN NaN ELSE [a EXCEPT !.n = -a.n]

\* a - b
NumSub(a, b) == NumAdd(a, NumNeg(b))

\* a * b
NumMul(a, b) ==
  IF isNaN(a) \/ isNaN(b) THEN NaN
  ELSE IF a.k = "inf" \/ b.k = "inf"
       THEN (IF SignOf(a) * SignOf(b) = 0 THEN NaN ELSE InfOf(SignOf(a) * SignOf(b)))
  ELSE Rat(a.n * b.n, a.d * b.d)

\* a / b
NumDiv(a, b) ==
  IF isNaN(a) \/ isNaN(b) THEN NaN
  ELSE IF a.k = "inf" THEN (IF b.k = "inf" THEN NaN
                            ELSE InfOf(a.n * (IF b.n < 0 THEN -1 ELSE 1)))
  ELSE IF b.k = "inf" THEN Fin(0)
  ELSE IF b.n = 0 THEN (IF a.n = 0 THEN NaN ELSE InfOf(a.n))
  ELSE Rat(a.n * b.d, a.d * b.n)

\* a < b  (false when either side is NaN)
NumLt(a, b) ==
  IF isNaN(a) \/ isNaN(b) THEN FALSE
  ELSE IF a.k = "inf" THEN a.n < 0 /\ b # NegInf
  ELSE IF b.k = "inf" THEN b.n > 0
  ELSE LET g == GCD(a.d, b.d)
       IN  a.n * (b.d \div g) < b.n * (a.d \div g)

\* a > b
NumGt(a, b) == NumLt(b, a)

\* ToBoolean(x) of a number: 0, NaN and undefined are falsy
Truthy(x) == ~isNaN(x) /\ x # Fin(0)

\* a || b
OrElse(a, b) == IF Truthy(a) THEN a ELSE b

\* Number.isFinite
IsFiniteNum(x) == x.k = "fin"

(***************************************************************************)
(* State                                                                   *)
(***************************************************************************)
VARIABLES
  \* data-processing utilities (utils/dataProcessing.ts)
  stage,        \* which call of the pipeline has been made
  rinex,        \* RinexData[] handed to calculateSubsidence
  data,         \* ProcessedData[]: calculateSubsidence's result, or a caller's list
  cleaned,      \* cleanData(data)
  recleaned,    \* cleanData(cleanData(data))
  windowSize,   \* generateTimeSeriesData's second argument
  seqInput,     \* the list handed to generateTimeSeriesData
  sequences,    \* its result
  \* data loader (utils/dataLoader.ts, generateYearlyPadangData)
  year,         \* the argument
  day,          \* outer loop counter
  districtIndex,\* forEach position
  loaded,       \* the local array `data`
  \* a PLSTMModel object and the callers of its classifier
  metrics,      \* this.metrics, or the ModelMetrics handed to onTrainingComplete
  riskStage,    \* which classifier call has been made
  riskData,     \* the ProcessedData[] being predicted
  predicted,    \* PLSTMModel.predict's result
  pageLevels,   \* getRiskLevel of each point, as the Prediction page computes it
  \* a training run: PLSTMModel.train, DetailedTraining.startTraining or
  \* ModelTraining.startTraining
  runner,       \* which of the three is running
  epochs,       \* config.epochs
  pc,           \* the await the run is suspended at
  epoch,        \* loop variable `epoch`
  stepIndex,    \* loop variable `stepIndex` / `i`
  detailIndex,  \* loop variable `j` / `progress`
  pending,      \* the losses computed before the await of DetailedTraining's epoch
  trainingLoss, \* local array
  validationLoss, \* local array
  epochDetails, \* local array `epochDetails` / `epochDetailsArray`
  isTraining,   \* this.isTraining / the component's isTraining state
  reported,     \* arguments of the latest onProgress call
  trainingSteps,\* the Training page's step list, updated through onStepUpdate
  completions,  \* number of onTrainingComplete calls
  previousRun,  \* the EpochDetail list of the run that completed before this one
  trainedModel, \* the Training page's trainedModel state
  exported,     \* the content of the Blob handed to the browser by downloadModel
  realTimeData, \* the Prediction page's realTimeData state
  isRunning,    \* the Prediction page's isRunning state
  currentIndex, \* the Prediction page's currentIndex state
  predictions,  \* the Prediction page's predictions state
  trainCalls,   \* the train() calls in flight on one PLSTMModel, each with its locals
  resolved,     \* the metrics objects of the train() calls that resolved, in order
  lastCall,     \* the latest predict / getMetrics call and what it returned
  currentPhase, \* the Training page's currentPhase state
  dataPreview,  \* the Training page's dataPreview state
  modelMetrics, \* the Training page's modelMetrics state
  isLoading,    \* the Training page's isLoading state
  useCustomData,\* the Training page's useCustomData state
  pendingLoads, \* loadData calls suspended at `await loadPadangData()`
  pendingTimers,\* timers set by handleCustomFileUpload that have not fired
  files,        \* the files handed to FileUpload.handleFileUpload (their texts)
  reads,        \* per file: the state of its FileReader
  contents,     \* the local array `contents`
  processedCount, \* the local counter `processedCount`
  uploadedFiles,\* FileUpload's uploadedFiles state
  uploadError,  \* FileUpload's error state
  uploads,      \* the onFileUpload invocations
  stepsBefore,  \* trainingSteps before the latest updateTrainingStep call
  lastUpdate,   \* the arguments of the latest updateTrainingStep call
  riskFilter,   \* the riskFilter state
  toggled,      \* per level: whether it was toggled an odd number of times
  subsidencePoints, \* the subsidencePoints state
  rawData       \* the text handed to processRinexData

dataVars == <<stage, rinex, data, cleaned, recleaned, windowSize, seqInput, sequences>>
loaderVars == <<year, day, districtIndex, loaded>>
riskVars == <<riskStage, riskData, predicted, pageLevels>>
trainVars == <<runner, epochs, pc, epoch, stepIndex, detailIndex, pending, trainingLoss,
               validationLoss, epochDetails, isTraining, reported, trainingSteps,
               completions, previousRun, trainedModel, exported>>
pageVars == <<realTimeData, isRunning, currentIndex, predictions>>
modelVars == <<trainCalls, resolved, lastCall>>
phaseVars == <<currentPhase, dataPreview, modelMetrics, isLoading, useCustomData,
               pendingLoads, pendingTimers>>
uploadVars == <<files, reads, contents, processedCount, uploadedFiles, uploadError, uploads>>
stepVars == <<stepsBefore, lastUpdate>>
filterVars == <<riskFilter, toggled, subsidencePoints>>
componentVars == <<modelVars, phaseVars, uploadVars, stepVars, filterVars, rawData>>
vars == <<dataVars, loaderVars, metrics, riskVars, trainVars, pageVars, componentVars>>

(***************************************************************************)
(* utils/dataProcessing.ts                                                 *)
(***************************************************************************)
Min(a, b) == IF a < b THEN a ELSE b
Max(a, b) == IF a > b THEN a ELSE b

\* Array.prototype.slice(start, end) with 0-based, possibly negative, indices
Slice(s, start, end) ==
  LET len == Len(s)
      from == IF start < 0 THEN Max(len + start, 0) ELSE Min(start, len)
      to == IF end < 0 THEN Max(len + end, 0) ELSE Min(end, len)
  IN  SubSeq(s, from + 1, to)

\* data[0]?.height : undefined for an empty array
FirstHeight(list) == IF Len(list) = 0 THEN Undefined ELSE list[1].height

DefaultBaseHeight == 50
DaysPerYear == 365
SubsidenceBound == 100
DefaultWindow == 30

\* the yearly value taken over index + 1 days
SubsidenceOfShifted(list, index) ==
  LET point == list[index + 1]
      subsidence == NumSub(OrElse(FirstHeight(list), Fin(DefaultBaseHeight)), point.height)
  IN  [timestamp |-> point.timestamp,
       easting |-> point.easting,
       northing |-> point.northing,
       height |-> point.height,
       geoidSeparation |-> point.geoidSeparation,
       subsidence |-> subsidence,
       yearlySubsidence |->
         IF index > 0
         THEN NumDiv(subsidence, NumDiv(Fin(index + 1), Fin(DaysPerYear)))
         ELSE Fin(0),
       velocity |-> Undefined,
       acceleration |-> Undefined]

\* the body of calculateSubsidence's map callback, index 0-based
SubsidenceOf(list, index) ==
  LET point == list[index + 1]
      baseHeight == OrElse(FirstHeight(list), Fin(DefaultBaseHeight))
      subsidence == NumSub(baseHeight, point.height)
      yearlySubsidence ==
        IF index > 0
        THEN NumDiv(subsidence, NumDiv(Fin(index), Fin(DaysPerYear)))
        ELSE Fin(0)
  IN  [timestamp |-> point.timestamp,
       easting |-> point.easting,
       northing |-> point.northing,
       height |-> point.height,
       geoidSeparation |-> point.geoidSeparation,
       subsidence |-> subsidence,
       yearlySubsidence |-> yearlySubsidence,
       velocity |-> Undefined,
       acceleration |-> Undefined]

calculateSubsidence(list) == [i \in 1..Len(list) |-> SubsidenceOf(list, i - 1)]

\* cleanData's filter predicate
KeepPoint(point) ==
  /\ NumLt(MathAbs(point.subsidence), Fin(SubsidenceBound))
  /\ ~isNaN(point.easting)
  /\ ~isNaN(point.northing)
  /\ ~isNaN(point.height)

\* removal in place while iterating forward: the element after a removed one is
\* never examined
RECURSIVE RemoveInPlace(_, _)
RemoveInPlace(list, i) ==
  IF i > Len(list) THEN list
  ELSE IF KeepPoint(list[i]) THEN RemoveInPlace(list, i + 1)
  ELSE RemoveInPlace(SubSeq(list, 1, i - 1) \o SubSeq(list, i + 1, Len(list)), i + 1)

cleanDataInPlace(list) == RemoveInPlace(list, 1)

cleanData(list) == SelectSeq(list, KeepPoint)

\* the for loop of generateTimeSeriesData from index i on
RECURSIVE SequencesFrom(_, _, _, _)
SequencesFrom(list, size, i, acc) ==
  IF i < Len(list)
  THEN SequencesFrom(list, size, i + 1,
         Append(acc, [sequence |-> Slice(list, i - size, i), target |-> list[i + 1]]))
  ELSE acc

\* a loop that starts one index late
generateTimeSeriesDataLate(list, size) == SequencesFrom(list, size, size + 1, <<>>)

generateTimeSeriesData(list, size) == SequencesFrom(list, size, size, <<>>)

(***************************************************************************)
(* utils/dataLoader.ts: generateYearlyPadangData                           *)
(***************************************************************************)
\* the first entries of the `districts` array (easting, northing)
Districts ==
  <<[easting |-> 128500, northing |-> 9894500],
    [easting |-> 129200, northing |-> 9894000],
    [easting |-> 129500, northing |-> 9896500],
    [easting |-> 128300, northing |-> 9892000]>>

Years == {2021, 2022, 2023, 2024}

\* values Math.random() may return, in [0, 1)
RandomDraws == {Rat(0, 1), Rat(1, 2)}
MidDraw == Rat(1, 2)

\* the record pushed for (year, day, districtIndex) with the draws rs (subsidence)
\* and rv (velocity); the other Math.random() calls are taken at MidDraw and the
\* three environmental covariates are not modelled
LoaderRecord(y, d, di, rs, rv) ==
  LET yearProgress == Rat(y - 2021, 3)
      baseSubsidence ==
        NumSub(NumMul(Rat(-2, 100), yearProgress),
               NumMul(Rat(d, DaysPerYear), Rat(15, 1000)))
      districtFactor == NumMul(Fin(di % 3), Rat(1, 100))
      subsidence ==
        NumAdd(NumSub(baseSubsidence, districtFactor),
               NumMul(NumSub(rs, Rat(1, 2)), Rat(5, 1000)))
      velocity == NumAdd(Rat(-15, 1000), NumMul(NumSub(rv, Rat(1, 2)), Rat(1, 100)))
      acceleration == NumMul(NumSub(MidDraw, Rat(1, 2)), Rat(1, 1000))
  IN  [timestamp |-> d,
       easting |-> NumAdd(Fin(Districts[di + 1].easting),
                          NumMul(NumSub(MidDraw, Rat(1, 2)), Fin(1000))),
       northing |-> NumAdd(Fin(Districts[di + 1].northing),
                           NumMul(NumSub(MidDraw, Rat(1, 2)), Fin(1000))),
       height |-> NumAdd(Fin(10), NumMul(MathAbs(subsidence), Fin(100))),
       geoidSeparation |-> Undefined,
       subsidence |-> subsidence,
       yearlySubsidence |-> NumMul(subsidence, Fin(DaysPerYear)),
       velocity |-> velocity,
       acceleration |-> acceleration]

\* number of iterations of the outer loop that the model follows
LoaderDays == Min(DaysPerYear, MaxDays)

(***************************************************************************)
(* utils/dataProcessing.ts: processRinexData                               *)
(***************************************************************************)
\* a string is the sequence of its characters
Whitespace == {" ", "\t", "\r", "\n"}

\* String.prototype.split with a one-character separator, from position i on
RECURSIVE SplitFrom(_, _, _, _)
SplitFrom(text, sep, i, current) ==
  IF i > Len(text) THEN <<current>>
  ELSE IF text[i] = sep THEN <<current>> \o SplitFrom(text, sep, i + 1, <<>>)
  ELSE SplitFrom(text, sep, i + 1, Append(current, text[i]))

Split(text, sep) == SplitFrom(text, sep, 1, <<>>)

RECURSIVE TrimStart(_)
TrimStart(text) ==
  IF text # <<>> /\ Head(text) \in Whitespace THEN TrimStart(Tail(text)) ELSE text

RECURSIVE TrimEnd(_)
TrimEnd(text) ==
  IF text # <<>> /\ text[Len(text)] \in Whitespace
  THEN TrimEnd(SubSeq(text, 1, Len(text) - 1))
  ELSE text

\* String.prototype.trim
Trim(text) == TrimEnd(TrimStart(text))

\* String.prototype.includes
Includes(text, word) ==
  \E i \in 1..(Len(text) - Len(word) + 1) : SubSeq(text, i, i + Len(word) - 1) = word

UpperCase == <<"A", "B", "C", "D", "E", "F", "G", "H", "I", "J", "K", "L", "M",
               "N", "O", "P", "Q", "R", "S", "T", "U", "V", "W", "X", "Y", "Z">>
LowerCase == <<"a", "b", "c", "d", "e", "f", "g", "h", "i", "j", "k", "l", "m",
               "n", "o", "p", "q", "r", "s", "t", "u", "v", "w", "x", "y", "z">>

\* String.prototype.toLowerCase
toLowerCase(text) ==
  [i \in 1..Len(text) |->
     IF \E k \in 1..Len(UpperCase) : UpperCase[k] = text[i]
     THEN LowerCase[CHOOSE k \in 1..Len(UpperCase) : UpperCase[k] = text[i]]
     ELSE text[i]]

DecimalDigits == <<"0", "1", "2", "3", "4", "5", "6", "7", "8", "9">>

IsDigit(c) == \E k \in 1..Len(DecimalDigits) : DecimalDigits[k] = c

DigitValue(c) == (CHOOSE k \in 1..Len(DecimalDigits) : DecimalDigits[k] = c) - 1

\* the number of leading decimal digits of a string
RECURSIVE DigitRun(_)
DigitRun(text) ==
  IF text # <<>> /\ IsDigit(Head(text)) THEN 1 + DigitRun(Tail(text)) ELSE 0

\* the value of a string of decimal digits
RECURSIVE DigitsValue(_)
DigitsValue(text) ==
  IF text = <<>> THEN 0
  ELSE 10 * DigitsValue(SubSeq(text, 1, Len(text) - 1)) + DigitValue(text[Len(text)])

RECURSIVE PowerOfTen(_)
PowerOfTen(k) == IF k = 0 THEN 1 ELSE 10 * PowerOfTen(k - 1)

InfinityWord == <<"I", "n", "f", "i", "n", "i", "t", "y">>

\* parseFloat: leading white space, a sign, the longest prefix that is a decimal
\* literal (digits, a point, digits) or Infinity; NaN when there is none.  The
\* exponent part of a literal is not read here: no modelled input has one.
parseFloat(text) ==
  LET trimmed == TrimStart(text)
      signed == trimmed # <<>> /\ Head(trimmed) \in {"+", "-"}
      sign == IF trimmed # <<>> /\ Head(trimmed) = "-" THEN -1 ELSE 1
      body == IF signed THEN Tail(trimmed) ELSE trimmed
      intLen == DigitRun(body)
      rest == SubSeq(body, intLen + 1, Len(body))
      hasPoint == rest # <<>> /\ Head(rest) = "."
      fracLen == IF hasPoint THEN DigitRun(Tail(rest)) ELSE 0
      digits == SubSeq(body, 1, intLen) \o
                (IF hasPoint THEN SubSeq(Tail(rest), 1, fracLen) ELSE <<>>)
  IN  IF intLen + fracLen > 0
      THEN Rat(sign * DigitsValue(digits), PowerOfTen(fracLen))
      ELSE IF Len(body) >= Len(InfinityWord)
              /\ SubSeq(body, 1, Len(InfinityWord)) = InfinityWord
      THEN InfOf(sign)
      ELSE NaN

\* time zones the program may run in, as hours east of UTC
TimezoneOffsets == {0, 7}

\* new Date(2022, 0, dayOfMonth).toISOString(): the instant of local midnight of
\* that day, written in UTC; here as hours since 2022-01-01T00:00:00.000Z
LocalMidnight(dayOfMonth, tz) == 24 * (dayOfMonth - 1) - tz

\* array[k] for a 0-based k: undefined past the end
At(array, k) == IF k + 1 <= Len(array) THEN array[k + 1] ELSE Undefined

\* a record that takes the parsed columns as they are
CsvRecordWithoutDefaults(line, index, tz, r) ==
  LET fields == Split(line, ",")
      values == [k \in 1..Len(fields) |-> parseFloat(Trim(fields[k]))]
  IN  [timestamp |-> LocalMidnight(index + 1, tz),
       easting |-> At(values, 1),
       northing |-> At(values, 2),
       height |-> At(values, 3),
       geoidSeparation |-> At(values, 4)]

\* the map callback of the CSV branch for the line at 0-based index, with the draw
\* r of the default height; the other defaults are taken at MidDraw
CsvRecord(line, index, tz, r) ==
  LET fields == Split(line, ",")
      values == [k \in 1..Len(fields) |-> OrElse(parseFloat(Trim(fields[k])), Fin(0))]
  IN  [timestamp |-> LocalMidnight(index + 1, tz),
       easting |-> OrElse(At(values, 1), NumAdd(Fin(700000), NumMul(MidDraw, Fin(50000)))),
       northing |-> OrElse(At(values, 2), NumAdd(Fin(9300000), NumMul(MidDraw, Fin(100000)))),
       height |-> OrElse(At(values, 3), NumAdd(Fin(50), NumMul(r, Fin(10)))),
       geoidSeparation |-> OrElse(At(values, 4), NumAdd(Fin(20), NumMul(MidDraw, Fin(5))))]

\* the Array.from callback of the RINEX branch
SimulatedRecord(index, tz, r) ==
  [timestamp |-> LocalMidnight(index + 1, tz),
   easting |-> NumAdd(Fin(700000), NumMul(MidDraw, Fin(50000))),
   northing |-> NumAdd(Fin(9300000), NumMul(MidDraw, Fin(100000))),
   height |-> NumSub(NumAdd(Fin(50), NumMul(r, Fin(10))), NumMul(Fin(index), Rat(1, 1000))),
   geoidSeparation |-> NumAdd(Fin(20), NumMul(MidDraw, Fin(5)))]

\* the map callback of the earlier processRinexData, which reads columns 0 to 3
CsvRecordEarlier(line, index, tz, r) ==
  LET fields == Split(line, ",")
      values == [k \in 1..Len(fields) |-> OrElse(parseFloat(Trim(fields[k])), Fin(0))]
  IN  [timestamp |-> LocalMidnight(index + 1, tz),
       easting |-> OrElse(At(values, 0), NumAdd(Fin(100000), NumMul(MidDraw, Fin(1000)))),
       northing |-> OrElse(At(values, 1), NumAdd(Fin(9800000), NumMul(MidDraw, Fin(1000)))),
       height |-> OrElse(At(values, 2), NumAdd(Fin(50), NumMul(r, Fin(10)))),
       geoidSeparation |-> OrElse(At(values, 3), NumAdd(Fin(20), NumMul(MidDraw, Fin(5))))]

\* lines = rawData.split('\n').filter(line => line.trim())
NonBlankLines(text) == SelectSeq(Split(text, "\n"), LAMBDA line : Trim(line) # <<>>)

\* isCSV = lines[0]?.includes(',') || lines[0]?.toLowerCase().includes('date')
IsCsv(lines) ==
  /\ lines # <<>>
  /\ \/ Includes(lines[1], <<",">>)
     \/ Includes(toLowerCase(lines[1]), <<"d", "a", "t", "e">>)

\* processRinexData(rawData) run in time zone tz, draws[i] the draw of record i
processRinexData(text, tz, draws) ==
  LET lines == NonBlankLines(text)
  IN  IF IsCsv(lines)
      THEN [i \in 1..(Len(lines) - 1) |-> CsvRecord(lines[i + 1], i - 1, tz, draws[i])]
      ELSE [i \in 1..Min(Len(lines), DaysPerYear) |-> SimulatedRecord(i - 1, tz, draws[i])]

\* the earlier processRinexData(rawData): every text is read as CSV
processRinexDataEarlier(text, tz, draws) ==
  LET lines == NonBlankLines(text)
  IN  [i \in 1..(Len(lines) - 1) |-> CsvRecordEarlier(lines[i + 1], i - 1, tz, draws[i])]

(***************************************************************************)
(* Inputs                                                                  *)
(***************************************************************************)
RECURSIVE SeqsUpTo(_, _)
SeqsUpTo(S, n) ==
  IF n = 0 THEN {<<>>}
  ELSE LET shorter == SeqsUpTo(S, n - 1)
       IN  shorter \cup {Append(q, x) : q \in {r \in shorter : Len(r) = n - 1}, x \in S}

HeightVals == {Fin(0), Fin(50), Fin(150), Fin(-60), NaN, PosInf}

RinexPoint(i, h) ==
  [timestamp |-> i, easting |-> Fin(700000), northing |-> Fin(9300000),
   height |-> h, geoidSeparation |-> Fin(20)]

RinexInputs ==
  {[i \in 1..Len(hs) |-> RinexPoint(i - 1, hs[i])] : hs \in SeqsUpTo(HeightVals, MaxLen)}

\* 40 daily observations, heights decreasing by 0.01 per day
ScenarioLen == DefaultWindow + 10
ScenarioRinex == [i \in 1..ScenarioLen |-> RinexPoint(i - 1, Rat(5000 - (i - 1), 100))]

\* ProcessedData records a caller may hand to cleanData: [easting, northing, height,
\* subsidence]
PointShapes ==
  {<<Fin(700000), Fin(9300000), Fin(50), Fin(0)>>,
   <<Fin(700000), Fin(9300000), Fin(-50), Fin(100)>>,
   <<Fin(700000), Fin(9300000), Fin(150), Fin(-100)>>,
   <<Fin(700000), Fin(9300000), Fin(-51), Fin(101)>>,
   <<NaN, Fin(9300000), Fin(50), Fin(0)>>,
   <<PosInf, Fin(9300000), Fin(50), Fin(0)>>,
   <<Fin(700000), NaN, Fin(50), Fin(0)>>,
   <<Fin(700000), NegInf, Fin(50), Fin(0)>>,
   <<Fin(700000), Fin(9300000), NaN, NaN>>,
   <<Fin(700000), Fin(9300000), PosInf, NegInf>>}

ProcessedPoint(i, shape) ==
  [timestamp |-> i, easting |-> shape[1], northing |-> shape[2], height |-> shape[3],
   geoidSeparation |-> Fin(20), subsidence |-> shape[4],
   yearlySubsidence |-> Fin(0), velocity |-> Undefined, acceleration |-> Undefined]

ProcessedInputs ==
  {[i \in 1..Len(q) |-> ProcessedPoint(i - 1, q[i])] : q \in SeqsUpTo(PointShapes, MaxLen)}

WindowSizes == (1..MaxWindow) \cup {DefaultWindow}

\* lines of the texts handed to processRinexData: headers ...
HeaderCsv == <<"d", ",", "e", ",", "n", ",", "h">>
HeaderDate == <<"D", "a", "t", "e">>
HeaderRinex == <<"R", "I", "N", "E", "X">>
Headers == {HeaderCsv, HeaderDate, HeaderRinex}

\* ... and the lines after the header
RowNumbers == <<"1", ",", "7", "0", "0", ",", "9", "3", ",", "5", "0">>
RowSpaced == <<"2", ",", " ", "7", ".", "5", " ", ",", "-", "3", ",", "0">>
RowWords == <<"3", ",", "a", "b", "c", ",", ",", "5", "x">>
RowShort == <<"4", ",", "2">>
RowHigh == <<"5", ",", "1", ",", "1", ",", "2", "0", "0">>
RowInfinity == <<"6", ",", "1", ",", "1", ",", "I", "n", "f", "i", "n", "i", "t", "y">>
RowBlank == <<" ", "\t">>
Rows == {RowNumbers, RowSpaced, RowWords, RowShort, RowHigh, RowInfinity, RowBlank}

\* how many lines follow the header
MaxRows == 2

\* the lines joined by line feeds
RECURSIVE JoinLines(_)
JoinLines(lines) ==
  IF Len(lines) = 0 THEN <<>>
  ELSE IF Len(lines) = 1 THEN lines[1]
  ELSE lines[1] \o <<"\n">> \o JoinLines(Tail(lines))

RawTexts == {JoinLines(<<h>> \o q) : h \in Headers, q \in SeqsUpTo(Rows, MaxRows)}


(***************************************************************************)
(* The data-processing calls as a state machine                            *)
(***************************************************************************)
DataIdle ==
  /\ stage = "idle" /\ rinex = <<>> /\ data = <<>> /\ cleaned = <<>>
  /\ recleaned = <<>> /\ windowSize = 0 /\ seqInput = <<>> /\ sequences = <<>>

LoaderIdle == year = 0 /\ day = 0 /\ districtIndex = 0 /\ loaded = <<>>

\* `null`
NullMetrics == [tag |-> "null"]

RiskIdle ==
  /\ riskStage = "idle" /\ riskData = <<>> /\ predicted = <<>> /\ pageLevels = <<>>

\* no earlier run, no model object, nothing downloaded
NoRun == [tag |-> "none"]
NullModel == [tag |-> "null"]
NoExport == [tag |-> "none"]

TrainIdle ==
  /\ runner = "none" /\ epochs = 0 /\ pc = "idle" /\ epoch = 0 /\ stepIndex = 0
  /\ detailIndex = 0 /\ pending = <<>> /\ trainingLoss = <<>> /\ validationLoss = <<>>
  /\ epochDetails = <<>> /\ isTraining = FALSE /\ reported = <<>>
  /\ trainingSteps = <<>> /\ completions = 0
  /\ previousRun = NoRun /\ trainedModel = NullModel /\ exported = NoExport

PageIdle ==
  /\ realTimeData = <<>> /\ isRunning = FALSE /\ currentIndex = 0 /\ predictions = <<>>

\* no predict / getMetrics call yet
NoCall == [op |-> "none"]

ModelIdle == trainCalls = <<>> /\ resolved = <<>> /\ lastCall = NoCall

\* `null` data preview
NullPreview == [tag |-> "null"]

\* the DataPreview that loadPadangData resolves to
LoadedPreview == [tag |-> "preview"]

PhaseIdle ==
  /\ currentPhase = 0 /\ dataPreview = NullPreview /\ modelMetrics = NullMetrics
  /\ isLoading = FALSE /\ useCustomData = FALSE /\ pendingLoads = 0 /\ pendingTimers = 0

\* the Training page at phase 2, where DetailedTraining is shown
PhaseModeling ==
  /\ currentPhase = 2 /\ dataPreview = LoadedPreview /\ modelMetrics = NullMetrics
  /\ isLoading = FALSE /\ useCustomData = FALSE /\ pendingLoads = 0 /\ pendingTimers = 0

UploadIdle ==
  /\ files = <<>> /\ reads = <<>> /\ contents = <<>> /\ processedCount = 0
  /\ uploadedFiles = <<>> /\ uploadError = FALSE /\ uploads = <<>>

StepIdle == stepsBefore = <<>> /\ lastUpdate = NoCall

FilterIdle == riskFilter = <<>> /\ toggled = <<>> /\ subsidencePoints = <<>>

\* no text was parsed
NoText == <<>>

TextIdle == rawData = NoText

\* a caller holds raw observations, or a ProcessedData list of its own, or calls
\* the loader for one year
DataScenario ==
  \/ /\ stage = "text"
     /\ rawData \in RawTexts
     /\ rinex = <<>> /\ data = <<>>
     /\ cleaned = <<>> /\ recleaned = <<>>
     /\ windowSize = 0 /\ seqInput = <<>> /\ sequences = <<>>
     /\ LoaderIdle
  \/ /\ stage = "raw"
     /\ rawData = NoText
     /\ rinex \in RinexInputs \cup {ScenarioRinex}
     /\ data = <<>>
     /\ cleaned = <<>> /\ recleaned = <<>>
     /\ windowSize = 0 /\ seqInput = <<>> /\ sequences = <<>>
     /\ LoaderIdle
  \/ /\ stage = "processed"
     /\ rawData = NoText
     /\ rinex = <<>>
     /\ data \in ProcessedInputs
     /\ cleaned = <<>> /\ recleaned = <<>>
     /\ windowSize = 0 /\ seqInput = <<>> /\ sequences = <<>>
     /\ LoaderIdle
  \/ /\ stage = "loading"
     /\ rawData = NoText
     /\ rinex = <<>> /\ data = <<>> /\ cleaned = <<>> /\ recleaned = <<>>
     /\ windowSize = 0 /\ seqInput = <<>> /\ sequences = <<>>
     /\ year \in Years
     /\ day = 0 /\ districtIndex = 0 /\ loaded = <<>>

\* rinex = processRinexData(rawData)
ProcessRinexData ==
  /\ stage = "text"
  /\ \E tz \in TimezoneOffsets : \E draws \in [1..(MaxRows + 1) -> RandomDraws] :
       rinex' = processRinexData(rawData, tz, draws)
  /\ stage' = "raw"
  /\ UNCHANGED <<data, cleaned, recleaned, windowSize, seqInput, sequences>>
  /\ UNCHANGED <<loaderVars, metrics, riskVars, trainVars, pageVars>>
  /\ UNCHANGED componentVars

\* rinex = processRinexData(rawData), by the earlier processRinexData
ProcessRinexDataEarlier ==
  /\ stage = "text"
  /\ \E tz \in TimezoneOffsets : \E draws \in [1..(MaxRows + 1) -> RandomDraws] :
       rinex' = processRinexDataEarlier(rawData, tz, draws)
  /\ stage' = "raw-earlier"
  /\ UNCHANGED <<data, cleaned, recleaned, windowSize, seqInput, sequences>>
  /\ UNCHANGED <<loaderVars, metrics, riskVars, trainVars, pageVars>>
  /\ UNCHANGED componentVars

\* data = calculateSubsidence(rinex)
CalculateSubsidence ==
  /\ stage \in {"raw", "raw-earlier"}
  /\ data' = calculateSubsidence(rinex)
  /\ stage' = "processed"
  /\ UNCHANGED <<rinex, cleaned, recleaned, windowSize, seqInput, sequences>>
  /\ UNCHANGED <<loaderVars, metrics, riskVars, trainVars, pageVars>>
  /\ UNCHANGED componentVars

\* cleaned = cleanData(data)
CleanData ==
  /\ stage = "processed"
  /\ cleaned' = cleanData(data)
  /\ stage' = "cleaned"
  /\ UNCHANGED <<rinex, data, recleaned, windowSize, seqInput, sequences>>
  /\ UNCHANGED <<loaderVars, metrics, riskVars, trainVars, pageVars>>
  /\ UNCHANGED componentVars

\* recleaned = cleanData(cleaned)
CleanAgain ==
  /\ stage = "cleaned"
  /\ recleaned' = cleanData(cleaned)
  /\ stage' = "recleaned"
  /\ UNCHANGED <<rinex, data, cleaned, windowSize, seqInput, sequences>>
  /\ UNCHANGED <<loaderVars, metrics, riskVars, trainVars, pageVars>>
  /\ UNCHANGED componentVars

\* sequences = generateTimeSeriesData(list, size), on the derived or the cleaned list
GenerateTimeSeries ==
  /\ stage = "recleaned"
  /\ \E list \in {data, cleaned} : \E size \in WindowSizes :
       /\ seqInput' = list
       /\ windowSize' = size
       /\ sequences' = generateTimeSeriesData(list, size)
  /\ stage' = "sequenced"
  /\ UNCHANGED <<rinex, data, cleaned, recleaned>>
  /\ UNCHANGED <<loaderVars, metrics, riskVars, trainVars, pageVars>>
  /\ UNCHANGED componentVars

\* one iteration of districts.forEach inside the day loop: data.push({...})
LoaderPush ==
  /\ stage = "loading"
  /\ day < LoaderDays
  /\ \E rs \in RandomDraws : \E rv \in RandomDraws :
       loaded' = Append(loaded, LoaderRecord(year, day, districtIndex, rs, rv))
  /\ IF districtIndex + 1 < NumDistricts
     THEN districtIndex' = districtIndex + 1 /\ day' = day
     ELSE districtIndex' = 0 /\ day' = day + 1
  /\ UNCHANGED <<year, stage>>
  /\ UNCHANGED <<rinex, data, cleaned, recleaned, windowSize, seqInput, sequences>>
  /\ UNCHANGED <<metrics, riskVars, trainVars, pageVars>>
  /\ UNCHANGED componentVars

\* return data
LoaderReturn ==
  /\ stage = "loading"
  /\ day >= LoaderDays
  /\ stage' = "loaded"
  /\ UNCHANGED <<loaderVars, metrics, riskVars, trainVars, pageVars>>
  /\ UNCHANGED <<rinex, data, cleaned, recleaned, windowSize, seqInput, sequences>>
  /\ UNCHANGED componentVars

DataInit == DataScenario /\ metrics = NullMetrics /\ RiskIdle /\ TrainIdle /\ PageIdle
            /\ ModelIdle /\ PhaseIdle /\ UploadIdle /\ StepIdle /\ FilterIdle

DataNext ==
  \/ ProcessRinexData
  \/ ProcessRinexDataEarlier
  \/ CalculateSubsidence
  \/ CleanData
  \/ CleanAgain
  \/ GenerateTimeSeries
  \/ LoaderPush
  \/ LoaderReturn

SpecData == DataInit /\ [][DataNext]_vars

(***************************************************************************)
(* Properties of the data-processing utilities                             *)
(***************************************************************************)
RECURSIVE IsSubsequence(_, _)
\* a is an order-preserving sub-list of b, element for element equal
IsSubsequence(a, b) ==
  IF Len(a) = 0 THEN TRUE
  ELSE IF Len(b) = 0 THEN FALSE
  ELSE IF Head(a) = Head(b) THEN IsSubsequence(Tail(a), Tail(b))
  ELSE IsSubsequence(a, Tail(b))

AllHeightsFinite(list) == \A i \in 1..Len(list) : IsFiniteNum(list[i].height)

\* C1: generateTimeSeriesData(data, L), L >= 1, returns exactly max(0, n - L)
\* sequences in order; the k-th (0-based) has context data[k..k+L-1] and target
\* data[k+L]; 40 records with L = 30 give exactly 10 sequences.
C1_SequencerWindows ==
  stage = "sequenced" =>
    /\ Len(sequences) = Max(0, Len(seqInput) - windowSize)
    /\ \A k \in 1..Len(sequences) :
         /\ Len(sequences[k].sequence) = windowSize
         /\ \A j \in 1..windowSize : sequences[k].sequence[j] = seqInput[k + j - 1]
         /\ sequences[k].target = seqInput[k + windowSize]
    /\ (Len(seqInput) = 40 /\ windowSize = 30) => Len(sequences) = 10

C1_Witness ==
  /\ stage = "sequenced"
  /\ Len(seqInput) = ScenarioLen
  /\ windowSize = DefaultWindow
  /\ Len(sequences) = 10
  /\ sequences[10].target.timestamp = 39

\* C2: for every non-empty series with finite heights handed to calculateSubsidence,
\* subsidence[i] = height[0] - height[i] for every i, and subsidence[0] = 0 whatever
\* the first height is (0 included).
C2_BaselineIsFirstHeight ==
  (stage = "processed" /\ Len(rinex) > 0 /\ AllHeightsFinite(rinex)) =>
    /\ \A i \in 1..Len(rinex) :
         data[i].subsidence = NumSub(rinex[1].height, rinex[i].height)
    /\ data[1].subsidence = Fin(0)

\* C5: cleanData(cleanData(x)) holds the same records in the same order as
\* cleanData(x), and cleanData's result is an order-preserving sub-list of its input
\* with no record modified.
C5_CleanIdempotent ==
  /\ stage \in {"cleaned", "recleaned", "sequenced"} => IsSubsequence(cleaned, data)
  /\ stage \in {"recleaned", "sequenced"} => recleaned = cleaned

C5_Witness ==
  /\ stage = "recleaned"
  /\ Len(data) = MaxLen
  /\ Len(cleaned) = 1
  /\ ~KeepPoint(data[1]) /\ ~KeepPoint(data[2])
  /\ recleaned = cleaned

\* what the specification says cleanData drops: a non-finite coordinate, or a
\* subsidence magnitude above the bound
SpecDrops(point) ==
  \/ ~IsFiniteNum(point.easting)
  \/ ~IsFiniteNum(point.northing)
  \/ ~IsFiniteNum(point.height)
  \/ NumGt(MathAbs(point.subsidence), Fin(SubsidenceBound))

\* timestamps are positions, so a record of data is kept iff its timestamp survives
KeptByClean(point) == \E k \in 1..Len(cleaned) : cleaned[k] = point

\* C6: cleanData drops a record iff one of easting, northing, height is non-finite
\* (NaN or +/-Infinity) or |subsidence| > 100; a record with finite coordinates and
\* |subsidence| <= 100 (exactly 100 included) is kept.
C6_DropsExactlyInvalid ==
  stage = "cleaned" =>
    \A i \in 1..Len(data) : KeptByClean(data[i]) <=> ~SpecDrops(data[i])

\* the series of one station within the loader's array: every NumDistricts-th record
StationSeries(list, di) ==
  [k \in 1..(Len(list) + NumDistricts - 1 - di) \div NumDistricts |->
     list[(k - 1) * NumDistricts + di + 1]]

\* velocity and acceleration as first differences over elapsed days
DiffRule(series, field, of) ==
  /\ Len(series) > 0 => series[1][field] = Fin(0)
  /\ \A i \in 2..Len(series) :
       series[i][field] =
         NumDiv(NumSub(series[i][of], series[i - 1][of]),
                Fin(series[i].timestamp - series[i - 1].timestamp))

\* C7: in every feature record series, velocity[0] = 0 and for i > 0
\* velocity[i] = (subsidence[i] - subsidence[i-1]) / dt_days[i]; acceleration is the
\* first difference of velocity under the same rule.
C7_VelocityIsFirstDifference ==
  /\ (stage = "processed" /\ Len(rinex) > 0 /\ AllHeightsFinite(rinex)) =>
       /\ DiffRule(data, "velocity", "subsidence")
       /\ DiffRule(data, "acceleration", "velocity")
  /\ stage = "loaded" =>
       \A di \in 0..(NumDistricts - 1) :
         /\ DiffRule(StationSeries(loaded, di), "velocity", "subsidence")
         /\ DiffRule(StationSeries(loaded, di), "acceleration", "velocity")

MediumAbove == Rat(1, 10)
HighAbove == Rat(3, 10)
CriticalAbove == Rat(1, 2)

\* comparisons with >= instead of >
RiskOfPredictionInclusive(predictedSubsidence) ==
  IF ~NumLt(MathAbs(predictedSubsidence), CriticalAbove)
       /\ ~isNaN(predictedSubsidence) THEN "critical"
  ELSE IF ~NumLt(MathAbs(predictedSubsidence), HighAbove)
       /\ ~isNaN(predictedSubsidence) THEN "high"
  ELSE IF ~NumLt(MathAbs(predictedSubsidence), MediumAbove)
       /\ ~isNaN(predictedSubsidence) THEN "medium"
  ELSE "low"

\* the if / else-if chain of PLSTMModel.predict
RiskOfPrediction(predictedSubsidence) ==
  IF NumGt(MathAbs(predictedSubsidence), CriticalAbove) THEN "critical"
  ELSE IF NumGt(MathAbs(predictedSubsidence), HighAbove) THEN "high"
  ELSE IF NumGt(MathAbs(predictedSubsidence), MediumAbove) THEN "medium"
  ELSE "low"

\* the tests for critical and high exchanged
getRiskLevelSwapped(subsidence) ==
  LET abs == MathAbs(subsidence)
  IN  IF NumGt(abs, HighAbove) THEN "critical"
      ELSE IF NumGt(abs, CriticalAbove) THEN "high"
      ELSE IF NumGt(abs, MediumAbove) THEN "medium"
      ELSE "low"

\* Prediction.getRiskLevel
getRiskLevel(subsidence) ==
  LET abs == MathAbs(subsidence)
  IN  IF NumGt(abs, CriticalAbove) THEN "critical"
      ELSE IF NumGt(abs, HighAbove) THEN "high"
      ELSE IF NumGt(abs, MediumAbove) THEN "medium"
      ELSE "low"

\* a callback that reports the prediction as the actual value
PredictPointEcho(point, rn, rc) ==
  LET noise == NumMul(NumSub(rn, Rat(1, 2)), Rat(1, 10))
      predictedSubsidence == NumAdd(point.subsidence, noise)
  IN  [timestamp |-> point.timestamp,
       actualSubsidence |-> predictedSubsidence,
       predictedSubsidence |-> predictedSubsidence,
       confidence |-> NumAdd(Rat(7, 10), NumMul(rc, Rat(25, 100))),
       riskLevel |-> RiskOfPrediction(predictedSubsidence)]

\* the map callback of PLSTMModel.predict with the draws rn (noise), rc (confidence)
PredictPoint(point, rn, rc) ==
  LET actualSubsidence == point.subsidence
      noise == NumMul(NumSub(rn, Rat(1, 2)), Rat(1, 10))
      predictedSubsidence == NumAdd(actualSubsidence, noise)
      confidence == NumAdd(Rat(7, 10), NumMul(rc, Rat(25, 100)))
  IN  [timestamp |-> point.timestamp,
       actualSubsidence |-> actualSubsidence,
       predictedSubsidence |-> predictedSubsidence,
       confidence |-> confidence,
       riskLevel |-> RiskOfPrediction(predictedSubsidence)]

\* subsidence values of the points handed to the classifiers
RiskValues ==
  {Fin(0), Rat(1, 10), Rat(3, 20), Rat(3, 10), Rat(1, 2), Rat(50001, 100000),
   Rat(-1, 10), Rat(-1, 2)}

RiskPoint(i, v) ==
  [timestamp |-> i, easting |-> Fin(100000), northing |-> Fin(9800000),
   height |-> NumSub(Fin(50), MathAbs(v)), geoidSeparation |-> Undefined,
   subsidence |-> v, yearlySubsidence |-> NumMul(v, Fin(DaysPerYear)),
   velocity |-> Undefined, acceleration |-> Undefined]

RiskInputs ==
  {[i \in 1..Len(q) |-> RiskPoint(i - 1, q[i])] : q \in SeqsUpTo(RiskValues, MaxPoints)}

\* a ModelMetrics object of a completed run, as far as predict reads it
SomeMetrics == [tag |-> "metrics"]

RiskInit ==
  /\ riskStage = "ready"
  /\ riskData \in RiskInputs
  /\ predicted = <<>>
  /\ pageLevels = <<>>
  /\ metrics \in {NullMetrics, SomeMetrics}
  /\ DataIdle /\ LoaderIdle /\ TrainIdle /\ PageIdle
  /\ ModelIdle /\ PhaseIdle /\ UploadIdle /\ StepIdle /\ FilterIdle /\ TextIdle

\* predict(data) on a model without metrics: throws
PredictThrows ==
  /\ riskStage = "ready"
  /\ metrics = NullMetrics
  /\ riskStage' = "threw"
  /\ UNCHANGED <<riskData, predicted, pageLevels, metrics, dataVars, loaderVars, trainVars, pageVars>>
  /\ UNCHANGED componentVars

\* predict(data) on a trained model
Predict ==
  /\ riskStage = "ready"
  /\ metrics # NullMetrics
  /\ \E rn \in [1..Len(riskData) -> RandomDraws] :
       predicted' = [i \in 1..Len(riskData) |-> PredictPoint(riskData[i], rn[i], MidDraw)]
  /\ riskStage' = "predicted"
  /\ UNCHANGED <<riskData, pageLevels, metrics, dataVars, loaderVars, trainVars, pageVars>>
  /\ UNCHANGED componentVars

\* the Prediction page's classification of each point: getRiskLevel(currentData.subsidence)
PageClassify ==
  /\ riskStage = "ready"
  /\ pageLevels' =
       [i \in 1..Len(riskData) |->
          [value |-> riskData[i].subsidence,
           riskLevel |-> getRiskLevel(riskData[i].subsidence)]]
  /\ riskStage' = "paged"
  /\ UNCHANGED <<riskData, predicted, metrics, dataVars, loaderVars, trainVars, pageVars>>
  /\ UNCHANGED componentVars

RiskNext == PredictThrows \/ Predict \/ PageClassify

SpecRisk == RiskInit /\ [][RiskNext]_vars

(***************************************************************************)
(* pages/Prediction.tsx: the real-time prediction page                     *)
(***************************************************************************)
\* subsidence values of the mock points the page generates on mount
PageValues == {Rat(1, 10), Rat(3, 20), Rat(1, 2), Rat(-1, 2)}

PageInputs ==
  {[i \in 1..Len(q) |-> RiskPoint(i - 1, q[i])] : q \in SeqsUpTo(PageValues, MaxPoints)}

\* a PredictionResult whose actual value is the noisy one
PagePredictionNoisy(currentData, rn, rc) ==
  [timestamp |-> currentData.timestamp,
   actualSubsidence |->
     NumAdd(currentData.subsidence, NumMul(NumSub(rn, Rat(1, 2)), Rat(1, 10))),
   predictedSubsidence |->
     NumAdd(currentData.subsidence, NumMul(NumSub(rn, Rat(1, 2)), Rat(1, 10))),
   confidence |-> NumAdd(Rat(7, 10), NumMul(rc, Rat(25, 100))),
   riskLevel |-> getRiskLevel(currentData.subsidence)]

\* the PredictionResult built by the interval callback, draws rn (noise) and rc
PagePrediction(currentData, rn, rc) ==
  [timestamp |-> currentData.timestamp,
   actualSubsidence |-> currentData.subsidence,
   predictedSubsidence |->
     NumAdd(currentData.subsidence, NumMul(NumSub(rn, Rat(1, 2)), Rat(1, 10))),
   confidence |-> NumAdd(Rat(7, 10), NumMul(rc, Rat(25, 100))),
   riskLevel |-> getRiskLevel(currentData.subsidence)]

\* the page after its mount effect has stored the generated data
PageInit ==
  /\ realTimeData \in PageInputs
  /\ isRunning = FALSE
  /\ predictions = <<>>
  /\ currentIndex = 0
  /\ metrics = NullMetrics
  /\ DataIdle /\ LoaderIdle /\ RiskIdle /\ TrainIdle
  /\ ModelIdle /\ PhaseIdle /\ UploadIdle /\ StepIdle /\ FilterIdle /\ TextIdle

\* the Start / Pause button
togglePrediction ==
  /\ isRunning' = ~isRunning
  /\ UNCHANGED <<realTimeData, currentIndex, predictions>>
  /\ UNCHANGED <<dataVars, loaderVars, metrics, riskVars, trainVars>>
  /\ UNCHANGED componentVars

\* the Reset button
resetPrediction ==
  /\ isRunning' = FALSE
  /\ predictions' = <<>>
  /\ currentIndex' = 0
  /\ UNCHANGED realTimeData
  /\ UNCHANGED <<dataVars, loaderVars, metrics, riskVars, trainVars>>
  /\ UNCHANGED componentVars

\* an interval that keeps firing while the page is paused
PageTickWhilePaused ==
  /\ currentIndex < Len(realTimeData)
  /\ \E rn \in RandomDraws :
       predictions' =
         Append(predictions, PagePrediction(realTimeData[currentIndex + 1], rn, MidDraw))
  /\ currentIndex' = currentIndex + 1
  /\ UNCHANGED <<realTimeData, isRunning>>
  /\ UNCHANGED <<dataVars, loaderVars, metrics, riskVars, trainVars>>
  /\ UNCHANGED componentVars

\* one firing of the interval set while isRunning && currentIndex < realTimeData.length
PageTick ==
  /\ isRunning
  /\ currentIndex < Len(realTimeData)
  /\ \E rn \in RandomDraws :
       predictions' =
         Append(predictions, PagePrediction(realTimeData[currentIndex + 1], rn, MidDraw))
  /\ currentIndex' = currentIndex + 1
  /\ UNCHANGED <<realTimeData, isRunning>>
  /\ UNCHANGED <<dataVars, loaderVars, metrics, riskVars, trainVars>>
  /\ UNCHANGED componentVars

PageNext == togglePrediction \/ resetPrediction \/ PageTick

SpecPage == PageInit /\ [][PageNext]_vars

\* the step PageTick takes, seen through currentIndex alone
IntervalFires ==
  /\ isRunning
  /\ currentIndex < Len(realTimeData)
  /\ currentIndex' = currentIndex + 1

\* setInterval fires its callback every 1000 ms for as long as the effect keeps it
\* set: a tick that stays possible is eventually taken
SpecPageFair == PageInit /\ [][PageNext]_vars /\ WF_currentIndex(IntervalFires)

(***************************************************************************)
(* Properties of the risk classifier                                       *)
(***************************************************************************)
Severity(level) ==
  CASE level = "low" -> 0 [] level = "medium" -> 1 [] level = "high" -> 2
    [] level = "critical" -> 3

\* the classified magnitudes with the level each received
Classified ==
  {<<MathAbs(predicted[i].predictedSubsidence), predicted[i].riskLevel>> :
     i \in 1..Len(predicted)}
  \cup {<<MathAbs(pageLevels[i].value), pageLevels[i].riskLevel>> : i \in 1..Len(pageLevels)}

RECURSIVE Pow(_, _)
\* Math.pow(x, k) for a natural k
Pow(x, k) == IF k = 0 THEN Fin(1) ELSE NumMul(x, Pow(x, k - 1))

\* Math.exp(-e * c) as b^e, with b a rational close to exp(-c)
ExpTenth == Rat(9, 10)
ExpEightHundredths == Rat(12, 13)
ExpTwentieth == Rat(19, 20)
ExpTwentyFifth == Rat(24, 25)

RECURSIVE MathExp(_, _)
\* Math.exp(-e * c) for a natural e: b^e, kept to three decimals
MathExp(b, e) ==
  IF e = 0 THEN Fin(1)
  ELSE LET x == NumMul(b, MathExp(b, e - 1)) IN Rat((x.n * 1000) \div x.d, 1000)

\* floor of the square root of a natural
ISqrt(n) == CHOOSE r \in 0..n : r * r <= n /\ (r + 1) * (r + 1) > n

\* Math.sqrt: exact on a rational square, truncated to two decimals otherwise
MathSqrt(x) ==
  IF isNaN(x) THEN NaN
  ELSE IF x.k = "inf" THEN (IF x.n > 0 THEN PosInf ELSE NaN)
  ELSE IF x.n < 0 THEN NaN
  ELSE IF ISqrt(x.n) * ISqrt(x.n) = x.n /\ ISqrt(x.d) * ISqrt(x.d) = x.d
       THEN Rat(ISqrt(x.n), ISqrt(x.d))
  ELSE Rat(ISqrt((x.n * 10000) \div x.d), 100)

\* config.learningRate and the decay applied every 10 epochs
DecayInterval == 10
LearningRate == Rat(1, 1000)
DecayedRate(e) == NumMul(LearningRate, Pow(Rat(95, 100), e \div DecayInterval))

\* draws of Math.random() for the per-epoch losses: both values in runs of up to
\* MaxEpochs epochs, the middle value in longer runs
LossDraws == IF epochs <= MaxEpochs THEN RandomDraws ELSE {MidDraw}

\* draws of Math.random() for which 0.025 + r * 0.01 is a rational square
SquareDraws == {Rat(6, 100), Rat(39, 100), Rat(74, 100)}

\* the Training page's initial trainingSteps
StepIds ==
  <<"data-loading", "data-cleaning", "feature-engineering", "sequence-preparation",
    "model-architecture", "model-training", "model-evaluation">>

InitialSteps == [i \in 1..Len(StepIds) |-> [id |-> StepIds[i], status |-> "pending", progress |-> Fin(0)]]

\* { ...step, ...update }
Merge(step, update) ==
  [f \in DOMAIN step \cup DOMAIN update |-> IF f \in DOMAIN update THEN update[f] ELSE step[f]]

\* an update merged into every step
updateEveryStep(steps, stepId, update) ==
  [i \in 1..Len(steps) |-> Merge(steps[i], update)]

\* Training.updateTrainingStep
updateTrainingStep(steps, stepId, update) ==
  [i \in 1..Len(steps) |-> IF steps[i].id = stepId THEN Merge(steps[i], update) ELSE steps[i]]

\* (a / b) * 100
Percent(a, b) == NumMul(NumDiv(Fin(a), Fin(b)), Fin(100))

(***************************************************************************)
(* The model object and its export                                         *)
(***************************************************************************)
\* the PLSTMConfig in use
Config == [epochs |-> epochs, learningRate |-> LearningRate]

\* new PLSTMModel(config): the config is stored, metrics starts as null
NewModel(config) == [tag |-> "model", config |-> config, metrics |-> NullMetrics]

\* new Date().toISOString()
Timestamp == "ISO-8601"

\* PLSTMModel.exportModel: the object that JSON.stringify writes into the Blob
exportModel(model) ==
  [config |-> model.config, metrics |-> model.metrics, timestamp |-> Timestamp]

\* Training.downloadModel
downloadModel ==
  /\ trainedModel # NullModel
  /\ exported' = exportModel(trainedModel)
  /\ UNCHANGED <<runner, epochs, pc, epoch, stepIndex, detailIndex, pending, trainingLoss,
                 validationLoss, epochDetails, isTraining, reported, trainingSteps,
                 completions, previousRun, trainedModel, metrics>>
  /\ UNCHANGED <<dataVars, loaderVars, riskVars, pageVars>>
  /\ UNCHANGED componentVars

(***************************************************************************)
(* PLSTMModel.train                                                        *)
(***************************************************************************)
\* steps.length
PlstmSteps == 7

\* progress counted from 0
PlstmProgressFromZero(e, si) == Percent(e * PlstmSteps + si, epochs * PlstmSteps)

\* progress of iteration (epoch, stepIndex)
PlstmProgress(e, si) == Percent(e * PlstmSteps + si + 1, epochs * PlstmSteps)

\* an epoch record numbered from 0
PlstmEpochDetailFromZero(e, rt, rv) ==
  [epoch |-> e,
   trainingLoss |-> NumMul(MathExp(ExpTenth, e), NumAdd(Rat(1, 2), NumMul(rt, Rat(3, 10)))),
   validationLoss |-> NumMul(MathExp(ExpEightHundredths, e), NumAdd(Rat(6, 10), NumMul(rv, Rat(2, 10)))),
   accuracy |-> NumAdd(NumAdd(Rat(3, 10), NumMul(NumDiv(Fin(e), Fin(epochs)), Rat(6, 10))),
                       NumMul(MidDraw, Rat(1, 10))),
   learningRate |-> DecayedRate(e),
   duration |-> NumAdd(Fin(200), NumMul(MidDraw, Fin(100)))]

\* the epochDetail built at the last step of 0-based epoch e, draws rt and rv
PlstmEpochDetail(e, rt, rv) ==
  [epoch |-> e + 1,
   trainingLoss |-> NumMul(MathExp(ExpTenth, e), NumAdd(Rat(1, 2), NumMul(rt, Rat(3, 10)))),
   validationLoss |-> NumMul(MathExp(ExpEightHundredths, e), NumAdd(Rat(6, 10), NumMul(rv, Rat(2, 10)))),
   accuracy |-> NumAdd(NumAdd(Rat(3, 10), NumMul(NumDiv(Fin(e), Fin(epochs)), Rat(6, 10))),
                       NumMul(MidDraw, Rat(1, 10))),
   learningRate |-> DecayedRate(e),
   duration |-> NumAdd(Fin(200), NumMul(MidDraw, Fin(100)))]

\* metrics with the two loss series exchanged
PlstmMetricsSwapped(rm, tl, vl, ed) ==
  LET mse == NumAdd(Rat(25, 1000), NumMul(rm, Rat(1, 100)))
  IN  [tag |-> "metrics",
       mse |-> mse,
       rmse |-> MathSqrt(mse),
       mae |-> NumAdd(Rat(15, 100), NumMul(MidDraw, Rat(5, 100))),
       accuracy |-> NumAdd(Rat(85, 100), NumMul(MidDraw, Rat(1, 10))),
       r2Score |-> NumAdd(Rat(8, 10), NumMul(MidDraw, Rat(15, 100))),
       trainingLoss |-> vl,
       validationLoss |-> tl,
       epochDetails |-> ed]

\* this.metrics as assigned after the loops, draw rm for mse
PlstmMetrics(rm, tl, vl, ed) ==
  LET mse == NumAdd(Rat(25, 1000), NumMul(rm, Rat(1, 100)))
  IN  [tag |-> "metrics",
       mse |-> mse,
       rmse |-> MathSqrt(mse),
       mae |-> NumAdd(Rat(15, 100), NumMul(MidDraw, Rat(5, 100))),
       accuracy |-> NumAdd(Rat(85, 100), NumMul(MidDraw, Rat(1, 10))),
       r2Score |-> NumAdd(Rat(8, 10), NumMul(MidDraw, Rat(15, 100))),
       trainingLoss |-> tl,
       validationLoss |-> vl,
       epochDetails |-> ed]

\* one onProgress call
ProgressCall(progress, step, withDetails, count) ==
  [progress |-> progress, step |-> step, withDetails |-> withDetails, count |-> count]

\* train(data, onProgress) up to its first await, or to its return when the epoch
\* loop has no iteration
PlstmTrain ==
  /\ runner = "plstm" /\ pc = "idle"
  /\ trainingLoss' = <<>> /\ validationLoss' = <<>> /\ epochDetails' = <<>>
  /\ epoch' = 0 /\ stepIndex' = 0
  /\ IF 0 < epochs
     THEN /\ isTraining' = TRUE
          /\ reported' = <<ProgressCall(PlstmProgress(0, 0), 0, FALSE, 0)>>
          /\ pc' = "step-await"
          /\ UNCHANGED metrics
     ELSE /\ \E rm \in SquareDraws : metrics' = PlstmMetrics(rm, <<>>, <<>>, <<>>)
          /\ isTraining' = FALSE
          /\ reported' = <<>>
          /\ pc' = "done"
  /\ UNCHANGED <<runner, epochs, detailIndex, pending, trainingSteps, completions>>
  /\ UNCHANGED <<dataVars, loaderVars, riskVars, pageVars, previousRun, trainedModel, exported>>
  /\ UNCHANGED componentVars

\* the rest of iteration (epoch, stepIndex) after its await, and the run up to the
\* next await or to the return
PlstmStep ==
  /\ runner = "plstm" /\ pc = "step-await"
  /\ \E rt \in LossDraws : \E rv \in LossDraws : \E rm \in SquareDraws :
       LET last == stepIndex = PlstmSteps - 1
           detail == PlstmEpochDetail(epoch, rt, rv)
           tl == IF last THEN Append(trainingLoss, detail.trainingLoss) ELSE trainingLoss
           vl == IF last THEN Append(validationLoss, detail.validationLoss) ELSE validationLoss
           ed == IF last THEN Append(epochDetails, detail) ELSE epochDetails
           calls == IF last
                    THEN Append(reported,
                           ProgressCall(PlstmProgress(epoch, stepIndex), stepIndex, TRUE, Len(ed)))
                    ELSE reported
           nextStep == IF last THEN 0 ELSE stepIndex + 1
           nextEpoch == IF last THEN epoch + 1 ELSE epoch
       IN  /\ (~last) => (rt = MidDraw /\ rv = MidDraw)
           /\ trainingLoss' = tl /\ validationLoss' = vl /\ epochDetails' = ed
           /\ epoch' = nextEpoch /\ stepIndex' = nextStep
           /\ IF nextEpoch < epochs
              THEN /\ reported' = Append(calls,
                        ProgressCall(PlstmProgress(nextEpoch, nextStep), nextStep, FALSE, 0))
                   /\ pc' = "step-await"
                   /\ UNCHANGED <<metrics, isTraining>>
              ELSE /\ metrics' = PlstmMetrics(rm, tl, vl, ed)
                   /\ isTraining' = FALSE
                   /\ reported' = calls
                   /\ pc' = "done"
  /\ UNCHANGED <<runner, epochs, detailIndex, pending, trainingSteps, completions>>
  /\ UNCHANGED <<dataVars, loaderVars, riskVars, pageVars, previousRun, trainedModel, exported>>
  /\ UNCHANGED componentVars

(***************************************************************************)
(* DetailedTraining.startTraining                                          *)
(***************************************************************************)
\* preprocessingSteps[i].details.length
DetailCount(i) == IF i = 0 THEN 6 ELSE 5
PreprocessingSteps == 5
EvaluationSteps == 5

\* onStepUpdate(id, {status: 'processing', progress: 0})
StepStarted(steps, id) ==
  updateTrainingStep(steps, id, [status |-> "processing", progress |-> Fin(0)])

\* onStepUpdate(id, {status: 'processing', progress, details})
StepProgress(steps, id, progress, lines) ==
  updateTrainingStep(steps, id,
    [status |-> "processing", progress |-> progress, details |-> lines])

\* onStepUpdate(id, {status: 'completed', progress: 100})
StepCompleted(steps, id) ==
  updateTrainingStep(steps, id, [status |-> "completed", progress |-> Fin(100)])

\* the metrics computed for 1-based epoch e before its await, draws rt and rv
DetailedEpochDraw(e, rt, rv) ==
  [epoch |-> e,
   trainingLoss |-> NumMul(MathExp(ExpTwentieth, e), NumAdd(Rat(8, 10), NumMul(rt, Rat(4, 10)))),
   validationLoss |-> NumMul(MathExp(ExpTwentyFifth, e), NumAdd(Rat(9, 10), NumMul(rv, Rat(3, 10)))),
   accuracy |->
     LET a == NumAdd(NumAdd(Rat(3, 10), NumMul(NumDiv(Fin(e), Fin(epochs)), Rat(6, 10))),
                     NumMul(MidDraw, Rat(1, 10)))
     IN  IF NumLt(a, Rat(95, 100)) THEN a ELSE Rat(95, 100),
   learningRate |-> DecayedRate(e),
   duration |-> Fin(200)]

\* finalMetrics, draws rm (mse) and rr (rmse)
DetailedMetrics(rm, rr, ed) ==
  [tag |-> "metrics",
   mse |-> NumAdd(Rat(15, 1000), NumMul(rm, Rat(1, 100))),
   rmse |-> NumAdd(Rat(12, 100), NumMul(rr, Rat(2, 100))),
   mae |-> NumAdd(Rat(8, 100), NumMul(MidDraw, Rat(2, 100))),
   accuracy |-> NumAdd(Rat(88, 100), NumMul(MidDraw, Rat(8, 100))),
   r2Score |-> NumAdd(Rat(85, 100), NumMul(MidDraw, Rat(1, 10))),
   trainingLoss |-> [i \in 1..Len(ed) |-> ed[i].trainingLoss],
   validationLoss |-> [i \in 1..Len(ed) |-> ed[i].validationLoss],
   epochDetails |-> ed]

\* the evaluation step started without completing the training step
EvaluationStartedEarly(steps) ==
  StepProgress(StepStarted(steps, "model-evaluation"),
               "model-evaluation", Percent(1, EvaluationSteps), 1)

\* the steps after the training loop, up to the first await of the evaluation loop
EvaluationStarted(steps) ==
  StepProgress(StepStarted(StepCompleted(steps, "model-training"), "model-evaluation"),
               "model-evaluation", Percent(1, EvaluationSteps), 1)

\* startTraining up to the first await
DetailedStart ==
  /\ runner = "detailed" /\ pc = "idle"
  /\ currentPhase = 2
  /\ isTraining' = TRUE
  /\ epoch' = 0 /\ epochDetails' = <<>>
  /\ stepIndex' = 0 /\ detailIndex' = 0
  /\ trainingSteps' =
       StepProgress(StepStarted(trainingSteps, StepIds[1]), StepIds[1],
                    Percent(1, DetailCount(0)), 1)
  /\ pc' = "detail-await"
  /\ UNCHANGED <<runner, epochs, pending, trainingLoss, validationLoss, reported,
                 completions, metrics>>
  /\ UNCHANGED <<dataVars, loaderVars, riskVars, pageVars, previousRun, trainedModel, exported>>
  /\ UNCHANGED componentVars

\* after the 800 ms await of detail j: the next detail, or the step's completion
DetailedDetail ==
  /\ runner = "detailed" /\ pc = "detail-await"
  /\ IF detailIndex + 1 < DetailCount(stepIndex)
     THEN /\ detailIndex' = detailIndex + 1
          /\ trainingSteps' =
               StepProgress(trainingSteps, StepIds[stepIndex + 1],
                            Percent(detailIndex + 2, DetailCount(stepIndex)), detailIndex + 2)
          /\ pc' = "detail-await"
     ELSE /\ detailIndex' = detailIndex + 1
          /\ trainingSteps' = StepCompleted(trainingSteps, StepIds[stepIndex + 1])
          /\ pc' = "step-await"
  /\ UNCHANGED <<runner, epochs, epoch, stepIndex, pending, trainingLoss, validationLoss,
                 epochDetails, isTraining, reported, completions, metrics>>
  /\ UNCHANGED <<dataVars, loaderVars, riskVars, pageVars, previousRun, trainedModel, exported>>
  /\ UNCHANGED componentVars

\* after the 500 ms await that ends a preprocessing step: the next step, or the
\* training phase up to the await of its first epoch
DetailedStep ==
  /\ runner = "detailed" /\ pc = "step-await"
  /\ IF stepIndex + 1 < PreprocessingSteps
     THEN /\ stepIndex' = stepIndex + 1
          /\ detailIndex' = 0
          /\ trainingSteps' =
               StepProgress(StepStarted(trainingSteps, StepIds[stepIndex + 2]),
                            StepIds[stepIndex + 2], Percent(1, DetailCount(stepIndex + 1)), 1)
          /\ pc' = "detail-await"
          /\ UNCHANGED <<epoch, pending>>
     ELSE IF 1 <= epochs
     THEN /\ stepIndex' = 5
          /\ detailIndex' = 0
          /\ trainingSteps' = StepStarted(trainingSteps, "model-training")
          /\ epoch' = 1
          /\ \E rt \in LossDraws : \E rv \in LossDraws :
               pending' = <<DetailedEpochDraw(1, rt, rv)>>
          /\ pc' = "epoch-await"
     ELSE /\ stepIndex' = 0
          /\ detailIndex' = 0
          /\ trainingSteps' = EvaluationStarted(StepStarted(trainingSteps, "model-training"))
          /\ epoch' = 1
          /\ pending' = <<>>
          /\ pc' = "eval-await"
  /\ UNCHANGED <<runner, epochs, trainingLoss, validationLoss, epochDetails, isTraining,
                 reported, completions, metrics>>
  /\ UNCHANGED <<dataVars, loaderVars, riskVars, pageVars, previousRun, trainedModel, exported>>
  /\ UNCHANGED componentVars

\* after the 200 ms await of an epoch: push its EpochDetail, report it, and run to
\* the next epoch's await or to the first await of the evaluation loop
DetailedEpoch ==
  /\ runner = "detailed" /\ pc = "epoch-await"
  /\ epochDetails' = Append(epochDetails, pending[1])
  /\ LET reportedSteps == StepProgress(trainingSteps, "model-training",
                                       Percent(epoch, epochs), 5)
     IN  IF epoch + 1 <= epochs
         THEN /\ epoch' = epoch + 1
              /\ \E rt \in LossDraws : \E rv \in LossDraws :
                   pending' = <<DetailedEpochDraw(epoch + 1, rt, rv)>>
              /\ trainingSteps' = reportedSteps
              /\ pc' = "epoch-await"
              /\ UNCHANGED stepIndex
         ELSE /\ epoch' = epoch + 1
              /\ pending' = <<>>
              /\ trainingSteps' = EvaluationStarted(reportedSteps)
              /\ stepIndex' = 0
              /\ pc' = "eval-await"
  /\ UNCHANGED <<runner, epochs, detailIndex, trainingLoss, validationLoss, isTraining,
                 reported, completions, metrics>>
  /\ UNCHANGED <<dataVars, loaderVars, riskVars, pageVars, previousRun, trainedModel, exported>>
  /\ UNCHANGED componentVars

\* after a 600 ms await of the evaluation loop: the next line, or the final metrics
\* and onTrainingComplete(finalMetrics)
DetailedEvaluation ==
  /\ runner = "detailed" /\ pc = "eval-await"
  /\ IF stepIndex + 1 < EvaluationSteps
     THEN /\ stepIndex' = stepIndex + 1
          /\ trainingSteps' =
               StepProgress(trainingSteps, "model-evaluation",
                            Percent(stepIndex + 2, EvaluationSteps), stepIndex + 2)
          /\ pc' = "eval-await"
          /\ UNCHANGED <<metrics, completions, isTraining, trainedModel>>
          /\ UNCHANGED <<modelMetrics, currentPhase>>
     ELSE /\ stepIndex' = stepIndex + 1
          /\ trainingSteps' = StepCompleted(trainingSteps, "model-evaluation")
          /\ \E rm \in RandomDraws : \E rr \in RandomDraws :
               /\ metrics' = DetailedMetrics(rm, rr, epochDetails)
               /\ modelMetrics' = DetailedMetrics(rm, rr, epochDetails)
          /\ completions' = completions + 1
          /\ trainedModel' = NewModel(Config)
          /\ currentPhase' = 3
          /\ isTraining' = FALSE
          /\ pc' = "done"
  /\ UNCHANGED <<runner, epochs, epoch, detailIndex, pending, trainingLoss, validationLoss,
                 epochDetails, reported>>
  /\ UNCHANGED <<dataVars, loaderVars, riskVars, pageVars, previousRun, exported>>
  /\ UNCHANGED <<dataPreview, isLoading, useCustomData, pendingLoads, pendingTimers>>
  /\ UNCHANGED <<modelVars, uploadVars, stepVars, filterVars, rawData>>

(***************************************************************************)
(* ModelTraining.startTraining                                             *)
(***************************************************************************)
\* mockMetrics: draws rm (mse), rr (rmse), and one draw per loss entry
BasicMetrics(rm, rr, dt, dv) ==
  [tag |-> "metrics",
   mse |-> NumAdd(Rat(25, 1000), NumMul(rm, Rat(1, 100))),
   rmse |-> NumAdd(Rat(16, 100), NumMul(rr, Rat(2, 100))),
   mae |-> NumAdd(Rat(12, 100), NumMul(MidDraw, Rat(3, 100))),
   accuracy |-> NumAdd(Rat(85, 100), NumMul(MidDraw, Rat(1, 10))),
   trainingLoss |->
     [i \in 1..Len(dt) |->
        NumMul(MathExp(ExpTenth, i - 1), NumAdd(Rat(1, 2), NumMul(dt[i], Rat(3, 10))))],
   validationLoss |->
     [i \in 1..Len(dv) |->
        NumMul(MathExp(ExpEightHundredths, i - 1), NumAdd(Rat(6, 10), NumMul(dv[i], Rat(2, 10))))]]

\* Array.from({ length }, ...) has max(0, length) entries
ArrayLength(n) == Max(0, n)

\* startTraining up to the first await
BasicStart ==
  /\ runner = "basic" /\ pc = "idle"
  /\ isTraining' = TRUE
  /\ stepIndex' = 0 /\ detailIndex' = 0
  /\ trainingSteps' = StepStarted(trainingSteps, trainingSteps[1].id)
  /\ pc' = "progress-await"
  /\ UNCHANGED <<runner, epochs, epoch, pending, trainingLoss, validationLoss, epochDetails,
                 reported, completions, metrics>>
  /\ UNCHANGED <<dataVars, loaderVars, riskVars, pageVars, previousRun, trainedModel, exported>>
  /\ UNCHANGED componentVars

\* after a 100 ms await: onStepUpdate(id, {progress}), then the next await or the
\* step's completion
BasicProgress ==
  /\ runner = "basic" /\ pc = "progress-await"
  /\ LET id == trainingSteps[stepIndex + 1].id
         shown == updateTrainingStep(trainingSteps, id, [progress |-> Fin(detailIndex)])
     IN  IF detailIndex + 10 <= 100
         THEN /\ detailIndex' = detailIndex + 10
              /\ trainingSteps' = shown
              /\ pc' = "progress-await"
         ELSE /\ detailIndex' = detailIndex + 10
              /\ trainingSteps' = StepCompleted(shown, id)
              /\ pc' = "step-await"
  /\ UNCHANGED <<runner, epochs, epoch, stepIndex, pending, trainingLoss, validationLoss,
                 epochDetails, isTraining, reported, completions, metrics>>
  /\ UNCHANGED <<dataVars, loaderVars, riskVars, pageVars, previousRun, trainedModel, exported>>
  /\ UNCHANGED componentVars

\* after the 200 ms await that ends a step: the next step, or the mock metrics and
\* onTrainingComplete(mockMetrics)
BasicStep ==
  /\ runner = "basic" /\ pc = "step-await"
  /\ IF stepIndex + 1 < Len(trainingSteps)
     THEN /\ stepIndex' = stepIndex + 1
          /\ detailIndex' = 0
          /\ trainingSteps' = StepStarted(trainingSteps, trainingSteps[stepIndex + 2].id)
          /\ pc' = "progress-await"
          /\ UNCHANGED <<metrics, completions, isTraining>>
     ELSE /\ stepIndex' = stepIndex + 1
          /\ UNCHANGED <<detailIndex, trainingSteps>>
          /\ \E rm \in RandomDraws : \E rr \in RandomDraws :
             \E dt \in [1..ArrayLength(epochs) -> LossDraws] :
             \E dv \in [1..ArrayLength(epochs) -> {MidDraw}] :
               metrics' = BasicMetrics(rm, rr, dt, dv)
          /\ completions' = completions + 1
          /\ isTraining' = FALSE
          /\ pc' = "done"
  /\ UNCHANGED <<runner, epochs, epoch, pending, trainingLoss, validationLoss, epochDetails,
                 reported>>
  /\ UNCHANGED <<dataVars, loaderVars, riskVars, pageVars, previousRun, trainedModel, exported>>
  /\ UNCHANGED componentVars

(***************************************************************************)
(* Training runs as a state machine                                        *)
(***************************************************************************)
Runners == {"plstm", "detailed", "basic"}

\* values of config.epochs
EpochChoices == (0..MaxEpochs) \cup {DecayInterval, DecayInterval + 1}

TrainInit ==
  /\ runner \in Runners
  /\ epochs \in EpochChoices
  /\ pc = "idle"
  /\ epoch = 0 /\ stepIndex = 0 /\ detailIndex = 0 /\ pending = <<>>
  /\ trainingLoss = <<>> /\ validationLoss = <<>> /\ epochDetails = <<>>
  /\ isTraining = FALSE
  /\ reported = <<>>
  /\ trainingSteps = InitialSteps
  /\ completions = 0
  /\ previousRun = NoRun /\ trainedModel = NullModel /\ exported = NoExport
  /\ metrics = NullMetrics
  /\ DataIdle /\ LoaderIdle /\ RiskIdle /\ PageIdle
  /\ IF runner = "detailed" THEN PhaseModeling ELSE PhaseIdle
  /\ ModelIdle /\ UploadIdle /\ StepIdle /\ FilterIdle /\ TextIdle

TrainNext ==
  \/ PlstmTrain
  \/ PlstmStep
  \/ DetailedStart
  \/ DetailedDetail
  \/ DetailedStep
  \/ DetailedEpoch
  \/ DetailedEvaluation
  \/ BasicStart
  \/ BasicProgress
  \/ BasicStep
  \/ downloadModel

SpecTrain == TrainInit /\ [][TrainNext]_vars

(***************************************************************************)
(* A second run with the same config                                       *)
(***************************************************************************)
\* the caller invokes train again on the same model once the previous call has
\* returned; config and data are the same, and the completed run's EpochDetail
\* list is remembered (DetailedTraining is unmounted when its run completes)
TrainAgain ==
  /\ runner = "plstm"
  /\ pc = "done"
  /\ epochs <= MaxRerunEpochs
  /\ completions < MaxRuns
  /\ pc' = "idle"
  /\ previousRun' = [tag |-> "run", epochDetails |-> epochDetails]
  /\ UNCHANGED <<runner, epochs, epoch, stepIndex, detailIndex, pending, trainingLoss,
                 validationLoss, epochDetails, isTraining, reported, trainingSteps,
                 completions, trainedModel, exported, metrics>>
  /\ UNCHANGED <<dataVars, loaderVars, riskVars, pageVars>>
  /\ UNCHANGED componentVars

RerunNext == TrainNext \/ TrainAgain

SpecRerun == TrainInit /\ [][RerunNext]_vars

(***************************************************************************)
(* The Training page's phases                                              *)
(***************************************************************************)
\* how many loads (timers of handleCustomFileUpload and loadPadangData awaits)
\* may be pending at once
MaxPending == 2

\* setUseCustomData(b): the two data source buttons of phase 0
setUseCustomData(b) ==
  /\ currentPhase = 0
  /\ useCustomData' = b
  /\ UNCHANGED <<currentPhase, dataPreview, modelMetrics, isLoading, pendingLoads,
                 pendingTimers>>
  /\ UNCHANGED <<dataVars, loaderVars, metrics, riskVars, trainVars, pageVars>>
  /\ UNCHANGED <<modelVars, uploadVars, stepVars, filterVars, rawData>>

\* loadData up to its await of loadPadangData()
LoadDataStarted ==
  /\ isLoading' = TRUE
  /\ pendingLoads' = pendingLoads + 1

\* the load button of phase 0 (shown for the default data, disabled={isLoading})
loadData ==
  /\ currentPhase = 0 /\ ~useCustomData /\ ~isLoading
  /\ pendingLoads + pendingTimers < MaxPending
  /\ LoadDataStarted
  /\ UNCHANGED <<currentPhase, dataPreview, modelMetrics, useCustomData, pendingTimers>>
  /\ UNCHANGED <<dataVars, loaderVars, metrics, riskVars, trainVars, pageVars>>
  /\ UNCHANGED <<modelVars, uploadVars, stepVars, filterVars, rawData>>

\* loadData after loadPadangData() has resolved, with its finally block
LoadDataResolved ==
  /\ pendingLoads > 0
  /\ pendingLoads' = pendingLoads - 1
  /\ dataPreview' = LoadedPreview
  /\ currentPhase' = 1
  /\ isLoading' = FALSE
  /\ UNCHANGED <<modelMetrics, useCustomData, pendingTimers>>
  /\ UNCHANGED <<dataVars, loaderVars, metrics, riskVars, trainVars, pageVars>>
  /\ UNCHANGED <<modelVars, uploadVars, stepVars, filterVars, rawData>>

\* handleCustomFileUpload: the FileUpload of phase 0 (shown for custom data) hands
\* over its files; a 1000 ms timer is set
handleCustomFileUpload ==
  /\ currentPhase = 0 /\ useCustomData
  /\ pendingLoads + pendingTimers < MaxPending
  /\ pendingTimers' = pendingTimers + 1
  /\ UNCHANGED <<currentPhase, dataPreview, modelMetrics, isLoading, useCustomData,
                 pendingLoads>>
  /\ UNCHANGED <<dataVars, loaderVars, metrics, riskVars, trainVars, pageVars>>
  /\ UNCHANGED <<modelVars, uploadVars, stepVars, filterVars, rawData>>

\* the timer of handleCustomFileUpload fires: loadData()
UploadTimer ==
  /\ pendingTimers > 0
  /\ pendingTimers' = pendingTimers - 1
  /\ LoadDataStarted
  /\ UNCHANGED <<currentPhase, dataPreview, modelMetrics, useCustomData>>
  /\ UNCHANGED <<dataVars, loaderVars, metrics, riskVars, trainVars, pageVars>>
  /\ UNCHANGED <<modelVars, uploadVars, stepVars, filterVars, rawData>>

\* handleProceedToModeling: the button of the data preview of phase 1
handleProceedToModeling ==
  /\ currentPhase = 1 /\ dataPreview # NullPreview
  /\ currentPhase' = 2
  /\ UNCHANGED <<dataPreview, modelMetrics, isLoading, useCustomData, pendingLoads,
                 pendingTimers>>
  /\ UNCHANGED <<dataVars, loaderVars, metrics, riskVars, trainVars, pageVars>>
  /\ UNCHANGED <<modelVars, uploadVars, stepVars, filterVars, rawData>>

PhaseInit ==
  /\ PhaseIdle
  /\ runner = "detailed"
  /\ epochs \in 0..MaxRerunEpochs
  /\ pc = "idle"
  /\ epoch = 0 /\ stepIndex = 0 /\ detailIndex = 0 /\ pending = <<>>
  /\ trainingLoss = <<>> /\ validationLoss = <<>> /\ epochDetails = <<>>
  /\ isTraining = FALSE
  /\ reported = <<>>
  /\ trainingSteps = InitialSteps
  /\ completions = 0
  /\ previousRun = NoRun /\ trainedModel = NullModel /\ exported = NoExport
  /\ metrics = NullMetrics
  /\ DataIdle /\ LoaderIdle /\ RiskIdle /\ PageIdle
  /\ ModelIdle /\ UploadIdle /\ StepIdle /\ FilterIdle /\ TextIdle

PhaseNext ==
  \/ \E b \in BOOLEAN : setUseCustomData(b)
  \/ loadData
  \/ LoadDataResolved
  \/ handleCustomFileUpload
  \/ UploadTimer
  \/ handleProceedToModeling
  \/ DetailedStart
  \/ DetailedDetail
  \/ DetailedStep
  \/ DetailedEpoch
  \/ DetailedEvaluation

SpecPhases == PhaseInit /\ [][PhaseNext]_vars

(***************************************************************************)
(* FileUpload.handleFileUpload                                             *)
(***************************************************************************)
\* how many files one drop or selection may hold
MaxFiles == 2

\* the texts a file may hold; a file is modelled by its text
FileTexts == {"", "a,b", "x", "y"}

\* an index of the contents array that was never assigned
Hole == [tag |-> "empty slot"]

\* if (content): a string is truthy unless it is empty
TruthyText(content) == content # ""

UploadInit ==
  /\ files \in {q \in SeqsUpTo(FileTexts, MaxFiles) : Len(q) > 0}
  /\ reads = <<>> /\ contents = <<>> /\ processedCount = 0
  /\ uploadedFiles = <<>> /\ uploadError = FALSE /\ uploads = <<>>
  /\ metrics = NullMetrics
  /\ DataIdle /\ LoaderIdle /\ RiskIdle /\ TrainIdle /\ PageIdle
  /\ ModelIdle /\ PhaseIdle /\ StepIdle /\ FilterIdle /\ TextIdle

\* handleFileUpload(files): one FileReader per file, all started
handleFileUpload ==
  /\ reads = <<>>
  /\ reads' = [i \in 1..Len(files) |-> "reading"]
  /\ contents' = [i \in 1..Len(files) |-> Hole]
  /\ processedCount' = 0
  /\ UNCHANGED <<files, uploadedFiles, uploadError, uploads>>
  /\ UNCHANGED <<dataVars, loaderVars, metrics, riskVars, trainVars, pageVars>>
  /\ UNCHANGED <<modelVars, phaseVars, stepVars, filterVars, rawData>>

\* reader.onload of the file at index i (1-based here)
ReaderOnLoad(i) ==
  /\ i \in 1..Len(reads)
  /\ reads[i] = "reading"
  /\ reads' = [reads EXCEPT ![i] = "loaded"]
  /\ LET content == files[i]
         filled == [contents EXCEPT ![i] = content]
     IN  IF TruthyText(content)
         THEN /\ contents' = filled
              /\ processedCount' = processedCount + 1
              /\ IF processedCount + 1 = Len(files)
                 THEN /\ uploadedFiles' = files
                      /\ uploads' = Append(uploads, [files |-> files, contents |-> filled])
                 ELSE UNCHANGED <<uploadedFiles, uploads>>
         ELSE UNCHANGED <<contents, processedCount, uploadedFiles, uploads>>
  /\ UNCHANGED <<files, uploadError>>
  /\ UNCHANGED <<dataVars, loaderVars, metrics, riskVars, trainVars, pageVars>>
  /\ UNCHANGED <<modelVars, phaseVars, stepVars, filterVars, rawData>>

\* reader.onerror of the file at index i
ReaderOnError(i) ==
  /\ i \in 1..Len(reads)
  /\ reads[i] = "reading"
  /\ reads' = [reads EXCEPT ![i] = "failed"]
  /\ uploadError' = TRUE
  /\ UNCHANGED <<files, contents, processedCount, uploadedFiles, uploads>>
  /\ UNCHANGED <<dataVars, loaderVars, metrics, riskVars, trainVars, pageVars>>
  /\ UNCHANGED <<modelVars, phaseVars, stepVars, filterVars, rawData>>

UploadNext ==
  \/ handleFileUpload
  \/ \E i \in 1..MaxFiles : ReaderOnLoad(i)
  \/ \E i \in 1..MaxFiles : ReaderOnError(i)

SpecUpload == UploadInit /\ [][UploadNext]_vars

(***************************************************************************)
(* Training.updateTrainingStep called by any caller                        *)
(***************************************************************************)
\* the stepId arguments: two ids of the list and one that is not in it
StepIdChoices == {"data-loading", "model-training", "unknown-step"}

\* the update arguments: the Partial<TrainingStep> objects the runners pass
StepUpdates ==
  {[status |-> "processing", progress |-> Fin(0)],
   [progress |-> Fin(50)],
   [status |-> "processing", progress |-> Fin(50), details |-> 1],
   [status |-> "completed", progress |-> Fin(100)]}

StepsInit ==
  /\ StepIdle
  /\ runner = "none" /\ epochs = 0 /\ pc = "idle"
  /\ epoch = 0 /\ stepIndex = 0 /\ detailIndex = 0 /\ pending = <<>>
  /\ trainingLoss = <<>> /\ validationLoss = <<>> /\ epochDetails = <<>>
  /\ isTraining = FALSE
  /\ reported = <<>>
  /\ trainingSteps = InitialSteps
  /\ completions = 0
  /\ previousRun = NoRun /\ trainedModel = NullModel /\ exported = NoExport
  /\ metrics = NullMetrics
  /\ DataIdle /\ LoaderIdle /\ RiskIdle /\ PageIdle
  /\ ModelIdle /\ PhaseIdle /\ UploadIdle /\ FilterIdle /\ TextIdle

\* updateTrainingStep(stepId, update): setTrainingSteps(prev => prev.map(...))
UpdateTrainingStep(stepId, update) ==
  /\ stepsBefore' = trainingSteps
  /\ lastUpdate' = [op |-> "updateTrainingStep", stepId |-> stepId, update |-> update]
  /\ trainingSteps' = updateTrainingStep(trainingSteps, stepId, update)
  /\ UNCHANGED <<runner, epochs, pc, epoch, stepIndex, detailIndex, pending, trainingLoss,
                 validationLoss, epochDetails, isTraining, reported, completions,
                 previousRun, trainedModel, exported>>
  /\ UNCHANGED <<dataVars, loaderVars, metrics, riskVars, pageVars>>
  /\ UNCHANGED <<modelVars, phaseVars, uploadVars, filterVars, rawData>>

StepsNext == \E stepId \in StepIdChoices : \E update \in StepUpdates :
               UpdateTrainingStep(stepId, update)

SpecSteps == StepsInit /\ [][StepsNext]_vars

(***************************************************************************)
(* The risk filter of the map (Training, MapView)                          *)
(***************************************************************************)
\* useState(['low', 'medium', 'high', 'critical'])
InitialRiskFilter == <<"low", "medium", "high", "critical">>

\* the keys of the four checkboxes
RiskKeys == {"low", "medium", "high", "critical"}

\* Array.prototype.includes
ArrayIncludes(array, x) == \E i \in 1..Len(array) : array[i] = x

\* a toggle that always appends
toggleAppends(prev, risk) == Append(prev, risk)

\* the updater of toggleRiskFilter
toggleRiskFilter(prev, risk) ==
  IF ArrayIncludes(prev, risk)
  THEN SelectSeq(prev, LAMBDA r : r # risk)
  ELSE Append(prev, risk)

\* filteredPoints, computed at each render
filteredPoints(points, filter) ==
  SelectSeq(points, LAMBDA point : ArrayIncludes(filter, point.riskLevel))

\* the points the page generates: each has one of the four risk levels
PointLists ==
  {[i \in 1..Len(q) |-> [id |-> i, riskLevel |-> q[i]]] : q \in SeqsUpTo(RiskKeys, MaxPoints)}

FilterInit ==
  /\ riskFilter = InitialRiskFilter
  /\ toggled = [level \in RiskKeys |-> FALSE]
  /\ subsidencePoints \in PointLists
  /\ metrics = NullMetrics
  /\ DataIdle /\ LoaderIdle /\ RiskIdle /\ TrainIdle /\ PageIdle
  /\ ModelIdle /\ PhaseIdle /\ UploadIdle /\ StepIdle /\ TextIdle

\* a click on the checkbox of `risk`: setRiskFilter(prev => ...)
ToggleRiskFilter(risk) ==
  /\ riskFilter' = toggleRiskFilter(riskFilter, risk)
  /\ toggled' = [toggled EXCEPT ![risk] = ~toggled[risk]]
  /\ UNCHANGED subsidencePoints
  /\ UNCHANGED <<dataVars, loaderVars, metrics, riskVars, trainVars, pageVars>>
  /\ UNCHANGED <<modelVars, phaseVars, uploadVars, stepVars, rawData>>

FilterNext == \E risk \in RiskKeys : ToggleRiskFilter(risk)

SpecFilter == FilterInit /\ [][FilterNext]_vars

(***************************************************************************)
(* One PLSTMModel instance: overlapping train calls, predict, getMetrics   *)
(***************************************************************************)
\* the train() calls a caller makes on the instance
CallIds == {1, 2}

\* a call that has not started
IdleCall ==
  [pc |-> "idle", epoch |-> 0, stepIndex |-> 0, trainingLoss |-> <<>>,
   validationLoss |-> <<>>, epochDetails |-> <<>>]

\* the list handed to predict
ModelData == <<RiskPoint(0, Rat(3, 20)), RiskPoint(1, Rat(1, 2))>>

\* predict without the test of this.metrics
predictUnchecked(m, list) ==
  [threw |-> FALSE,
   results |-> [i \in 1..Len(list) |-> PredictPoint(list[i], MidDraw, MidDraw)]]

\* PLSTMModel.predict on an instance whose metrics field is m
predict(m, list) ==
  IF m = NullMetrics
  THEN [threw |-> TRUE, results |-> <<>>]
  ELSE [threw |-> FALSE,
        results |-> [i \in 1..Len(list) |-> PredictPoint(list[i], MidDraw, MidDraw)]]

\* PLSTMModel.getMetrics
getMetrics(m) == m

ModelInit ==
  /\ trainCalls = [c \in CallIds |-> IdleCall]
  /\ resolved = <<>>
  /\ lastCall = NoCall
  /\ metrics = NullMetrics
  /\ runner = "instance"
  /\ epochs \in 0..MaxRerunEpochs
  /\ pc = "idle" /\ epoch = 0 /\ stepIndex = 0 /\ detailIndex = 0 /\ pending = <<>>
  /\ trainingLoss = <<>> /\ validationLoss = <<>> /\ epochDetails = <<>>
  /\ isTraining = FALSE /\ reported = <<>> /\ trainingSteps = <<>> /\ completions = 0
  /\ previousRun = NoRun /\ trainedModel = NullModel /\ exported = NoExport
  /\ DataIdle /\ LoaderIdle /\ RiskIdle /\ PageIdle
  /\ PhaseIdle /\ UploadIdle /\ StepIdle /\ FilterIdle /\ TextIdle

\* train(data, onProgress) of call c up to its first await, or to its return when
\* the epoch loop has no iteration
CallTrain(c) ==
  /\ trainCalls[c].pc = "idle"
  /\ IF 0 < epochs
     THEN /\ trainCalls' = [trainCalls EXCEPT ![c].pc = "step-await"]
          /\ isTraining' = TRUE
          /\ UNCHANGED <<metrics, resolved>>
     ELSE /\ \E rm \in SquareDraws :
               /\ metrics' = PlstmMetrics(rm, <<>>, <<>>, <<>>)
               /\ resolved' = Append(resolved, PlstmMetrics(rm, <<>>, <<>>, <<>>))
          /\ trainCalls' = [trainCalls EXCEPT ![c].pc = "done"]
          /\ isTraining' = FALSE
  /\ UNCHANGED <<runner, epochs, pc, epoch, stepIndex, detailIndex, pending, trainingLoss,
                 validationLoss, epochDetails, reported, trainingSteps, completions,
                 previousRun, trainedModel, exported, lastCall>>
  /\ UNCHANGED <<dataVars, loaderVars, riskVars, pageVars>>
  /\ UNCHANGED <<phaseVars, uploadVars, stepVars, filterVars, rawData>>

\* the rest of one iteration of call c after its await, up to the next await or to
\* the assignment of this.metrics and the return
CallStep(c) ==
  /\ trainCalls[c].pc = "step-await"
  /\ \E rm \in SquareDraws :
       LET call == trainCalls[c]
           last == call.stepIndex = PlstmSteps - 1
           detail == PlstmEpochDetail(call.epoch, MidDraw, MidDraw)
           tl == IF last THEN Append(call.trainingLoss, detail.trainingLoss)
                 ELSE call.trainingLoss
           vl == IF last THEN Append(call.validationLoss, detail.validationLoss)
                 ELSE call.validationLoss
           ed == IF last THEN Append(call.epochDetails, detail) ELSE call.epochDetails
           nextStep == IF last THEN 0 ELSE call.stepIndex + 1
           nextEpoch == IF last THEN call.epoch + 1 ELSE call.epoch
           finished == ~(nextEpoch < epochs)
       IN  /\ trainCalls' =
                [trainCalls EXCEPT
                   ![c] = [pc |-> IF finished THEN "done" ELSE "step-await",
                           epoch |-> nextEpoch, stepIndex |-> nextStep,
                           trainingLoss |-> tl, validationLoss |-> vl,
                           epochDetails |-> ed]]
           /\ IF finished
              THEN /\ metrics' = PlstmMetrics(rm, tl, vl, ed)
                   /\ resolved' = Append(resolved, PlstmMetrics(rm, tl, vl, ed))
                   /\ isTraining' = FALSE
              ELSE UNCHANGED <<metrics, resolved, isTraining>>
  /\ UNCHANGED <<runner, epochs, pc, epoch, stepIndex, detailIndex, pending, trainingLoss,
                 validationLoss, epochDetails, reported, trainingSteps, completions,
                 previousRun, trainedModel, exported, lastCall>>
  /\ UNCHANGED <<dataVars, loaderVars, riskVars, pageVars>>
  /\ UNCHANGED <<phaseVars, uploadVars, stepVars, filterVars, rawData>>

\* a predict(data) call between two steps of the train calls
ModelPredict ==
  /\ lastCall' = [op |-> "predict", outcome |-> predict(metrics, ModelData),
                  completed |-> Len(resolved)]
  /\ UNCHANGED <<trainCalls, resolved, metrics, trainVars>>
  /\ UNCHANGED <<dataVars, loaderVars, riskVars, pageVars>>
  /\ UNCHANGED <<phaseVars, uploadVars, stepVars, filterVars, rawData>>

\* a getMetrics() call between two steps of the train calls
ModelGetMetrics ==
  /\ lastCall' = [op |-> "getMetrics", result |-> getMetrics(metrics),
                  completed |-> Len(resolved)]
  /\ UNCHANGED <<trainCalls, resolved, metrics, trainVars>>
  /\ UNCHANGED <<dataVars, loaderVars, riskVars, pageVars>>
  /\ UNCHANGED <<phaseVars, uploadVars, stepVars, filterVars, rawData>>

ModelNext ==
  \/ \E c \in CallIds : CallTrain(c)
  \/ \E c \in CallIds : CallStep(c)
  \/ ModelPredict
  \/ ModelGetMetrics

SpecModel == ModelInit /\ [][ModelNext]_vars

(***************************************************************************)
(* Properties of the training runs                                         *)
(***************************************************************************)
NonNegative(x) == IsFiniteNum(x) /\ x.n >= 0

\* epoch records numbered 1, 2, ... in order, with non-negative losses
WellNumbered(ed) ==
  \A i \in 1..Len(ed) :
    /\ ed[i].epoch = i
    /\ NonNegative(ed[i].trainingLoss)
    /\ NonNegative(ed[i].validationLoss)

\* C9: a run with epochs = E that completes returns ModelMetrics whose epochDetails
\* holds exactly E entries, appended one per completed epoch, numbered 1..E in
\* increasing order, with non-negative training and validation losses.
C9_OneEpochMetricPerEpoch ==
  runner \in {"plstm", "detailed"} =>
    /\ WellNumbered(epochDetails)
    /\ (runner = "plstm" /\ pc = "step-await") => Len(epochDetails) = epoch
    /\ (runner = "detailed" /\ pc = "epoch-await") => Len(epochDetails) = epoch - 1
    /\ pc = "done" =>
         /\ metrics # NullMetrics
         /\ metrics.epochDetails = epochDetails
         /\ Len(metrics.epochDetails) = epochs

C9_Witness ==
  /\ runner = "plstm"
  /\ pc = "done"
  /\ epochs = 5
  /\ Len(metrics.epochDetails) = 5
  /\ metrics.epochDetails[5].epoch = 5

\* C10: every ModelMetrics of a completed run (PLSTMModel.train,
\* DetailedTraining.startTraining, ModelTraining.startTraining) has rmse = sqrt(mse):
\* rmse >= 0 and rmse * rmse = mse.
C10_RmseIsSqrtOfMse ==
  pc = "done" =>
    /\ NonNegative(metrics.rmse)
    /\ NumMul(metrics.rmse, metrics.rmse) = metrics.mse

\* the fields of an EpochDetail list that a rerun must reproduce
EpochMetrics(ed) ==
  [i \in 1..Len(ed) |->
     [trainingLoss |-> ed[i].trainingLoss, validationLoss |-> ed[i].validationLoss,
      accuracy |-> ed[i].accuracy, learningRate |-> ed[i].learningRate]]

\* C11: two training runs with identical config, identical input data and identical
\* RNG seed produce identical EpochMetric sequences: the same length and, entry by
\* entry, the same trainingLoss, validationLoss, accuracy and learningRate.
C11_RerunReproducesEpochMetrics ==
  (pc = "done" /\ previousRun # NoRun) =>
    EpochMetrics(epochDetails) = EpochMetrics(previousRun.epochDetails)

\* C12: in every PredictionResult the program produces, riskLevel equals the risk
\* classifier applied to |predictedSubsidence| of that same result (thresholds
\* 0.1 / 0.3 / 0.5), for PLSTMModel.predict and for the predictions appended by the
\* real-time Prediction page.
C12_RiskOfPredictedSubsidence ==
  /\ \A i \in 1..Len(predicted) :
       predicted[i].riskLevel = getRiskLevel(predicted[i].predictedSubsidence)
  /\ \A i \in 1..Len(predictions) :
       predictions[i].riskLevel = getRiskLevel(predictions[i].predictedSubsidence)

\* C13: a config with a field outside its valid range (epochs in [10, 1000]) is
\* rejected before any computation starts: no training step is started, no epoch is
\* run and no ModelMetrics is produced for such a config.
C13_InvalidConfigRejected ==
  (epochs < 10 \/ epochs > 1000) =>
    /\ pc = "idle"
    /\ metrics = NullMetrics
    /\ epochDetails = <<>>
    /\ \A i \in 1..Len(trainingSteps) : trainingSteps[i].status = "pending"

\* C14: the artifact exported after a completed training run (exportModel as
\* invoked by the Training page's downloadModel) contains the run's config, the
\* ModelMetrics of that completed run (non-null, the metrics shown in the evaluation
\* phase) and a timestamp.
C14_ExportHasConfigMetricsTimestamp ==
  exported # NoExport =>
    /\ DOMAIN exported = {"config", "metrics", "timestamp"}
    /\ exported.config = Config
    /\ exported.metrics # NullMetrics
    /\ exported.metrics = metrics

\* the entries of a generateTimeSeriesData result other than {sequence, target}
\* pairs: the only place the returned value could carry a warning
WarningsIn(result) ==
  {k \in 1..Len(result) : DOMAIN result[k] # {"sequence", "target"}}

\* C15: a series with fewer than sequenceLength + 1 records (exactly L included)
\* yields zero sequences and is reported as a data-quality warning in the returned
\* diagnostics; it never raises a fatal error and the pipeline continues.
C15_ShortSeriesWarned ==
  (stage = "sequenced" /\ Len(seqInput) < windowSize + 1) =>
    /\ Len(sequences) = 0
    /\ WarningsIn(sequences) # {}

\* C16: on a trained model, predict(data) returns exactly one PredictionResult per
\* input element, in input order; result i carries the timestamp and the subsidence
\* (as actualSubsidence) of input element i unchanged; the input list is not modified.
C16_PredictOnePerInput ==
  [][(riskStage = "ready" /\ riskStage' = "predicted") =>
       /\ riskData' = riskData
       /\ Len(predicted') = Len(riskData)
       /\ \A i \in 1..Len(riskData) :
            /\ predicted'[i].timestamp = riskData[i].timestamp
            /\ predicted'[i].actualSubsidence = riskData[i].subsidence]_vars

C16_Witness ==
  /\ riskStage = "predicted"
  /\ Len(riskData) = 3
  /\ Len(predicted) = 3
  /\ predicted[3].timestamp = riskData[3].timestamp
  /\ riskData[1].subsidence # riskData[3].subsidence
  /\ predicted[3].actualSubsidence = riskData[3].subsidence
  /\ predicted[3].predictedSubsidence # predicted[3].actualSubsidence

\* C19: the learning rate recorded for epoch number e (1-based) is the configured
\* learningRate times 0.95^k, k the number of complete 10-epoch blocks that precede
\* epoch e (epochs 1-10 the base rate, 11-20 one decay); PLSTMModel.train and
\* DetailedTraining.startTraining record the same rate for the same epoch number.
C19_RateDecaysPerCompletedBlock ==
  runner \in {"plstm", "detailed"} =>
    \A i \in 1..Len(epochDetails) :
      epochDetails[i].learningRate =
        NumMul(LearningRate, Pow(Rat(95, 100), (epochDetails[i].epoch - 1) \div 10))

\* the onProgress calls that carried the EpochDetail list
DetailCalls == SelectSeq(reported, LAMBDA c : c.withDetails)

\* C20: during PLSTMModel.train with epochs = E >= 1 the progress values passed to
\* onProgress are non-decreasing, each lies in (0, 100], and the last call reports
\* exactly 100; the EpochDetail list is passed exactly once per epoch, at that
\* epoch's last step, holding exactly the metrics of epochs 1..current.
C20_ProgressReports ==
  (runner = "plstm" /\ epochs >= 1) =>
    /\ \A i \in 1..Len(reported) :
         /\ NumGt(reported[i].progress, Fin(0))
         /\ ~NumGt(reported[i].progress, Fin(100))
         /\ i > 1 => ~NumLt(reported[i].progress, reported[i - 1].progress)
    /\ Len(DetailCalls) = Len(epochDetails)
    /\ \A k \in 1..Len(DetailCalls) :
         /\ DetailCalls[k].count = k
         /\ DetailCalls[k].step = PlstmSteps - 1
         /\ DetailCalls[k].progress = Percent(k, epochs)
    /\ pc = "done" =>
         /\ Len(DetailCalls) = epochs
         /\ reported[Len(reported)].progress = Fin(100)
         /\ reported[Len(reported)].withDetails

C20_Witness ==
  /\ runner = "plstm"
  /\ pc = "done"
  /\ epochs = 2
  /\ Len(reported) = 2 * (PlstmSteps + 1)
  /\ reported[1].progress = Rat(50, 7)
  /\ reported[PlstmSteps + 1].progress = Fin(50)
  /\ reported[PlstmSteps + 1].withDetails
  /\ reported[Len(reported)].progress = Fin(100)
  /\ reported[Len(reported)].count = 2

\* C21: in every ModelMetrics returned by a completed run, trainingLoss,
\* validationLoss and epochDetails have the same length, and for every index i
\* trainingLoss[i] = epochDetails[i].trainingLoss and
\* validationLoss[i] = epochDetails[i].validationLoss.
C21_LossSeriesMatchEpochDetails ==
  (pc = "done" /\ "epochDetails" \in DOMAIN metrics) =>
    /\ Len(metrics.trainingLoss) = Len(metrics.epochDetails)
    /\ Len(metrics.validationLoss) = Len(metrics.epochDetails)
    /\ \A i \in 1..Len(metrics.epochDetails) :
         /\ metrics.trainingLoss[i] = metrics.epochDetails[i].trainingLoss
         /\ metrics.validationLoss[i] = metrics.epochDetails[i].validationLoss

C21_Witness ==
  /\ pc = "done"
  /\ runner = "plstm"
  /\ epochs = 3
  /\ Len(metrics.trainingLoss) = 3
  /\ metrics.trainingLoss[3] = metrics.epochDetails[3].trainingLoss
  /\ metrics.trainingLoss[3] # metrics.validationLoss[3]
  /\ metrics.trainingLoss[3] # metrics.trainingLoss[1]

\* C22: on one PLSTMModel instance, under any interleaving of train, predict and
\* getMetrics calls, predict throws and produces no results exactly when no train
\* call has completed yet; getMetrics returns null exactly in that case; once a
\* train call has resolved, getMetrics returns the metrics object of the most
\* recently completed train call.
C22_TrainedExactlyAfterTrain ==
  /\ lastCall.op = "predict" =>
       /\ lastCall.outcome.threw <=> lastCall.completed = 0
       /\ lastCall.outcome.threw => lastCall.outcome.results = <<>>
       /\ ~lastCall.outcome.threw => Len(lastCall.outcome.results) = Len(ModelData)
  /\ lastCall.op = "getMetrics" =>
       /\ lastCall.result = NullMetrics <=> lastCall.completed = 0
       /\ lastCall.completed > 0 => lastCall.result = resolved[lastCall.completed]

C22_Witness ==
  /\ lastCall.op = "predict"
  /\ ~lastCall.outcome.threw
  /\ lastCall.completed = 1
  /\ trainCalls[1].pc = "step-await"
  /\ trainCalls[2].pc = "done"
  /\ Len(lastCall.outcome.results) = 2

\* the position of a status in pending -> processing -> completed
StatusRank(status) ==
  CASE status = "pending" -> 0
    [] status = "processing" -> 1
    [] status = "completed" -> 2

StepsInOrder ==
  /\ Cardinality({i \in 1..Len(trainingSteps) : trainingSteps[i].status = "processing"}) <= 1
  /\ \A i \in 1..Len(trainingSteps) :
       trainingSteps[i].status # "pending" =>
         \A j \in 1..(i - 1) : trainingSteps[j].status = "completed"
  /\ completions <= 1
  /\ completions = 1 =>
       \A i \in 1..Len(trainingSteps) :
         trainingSteps[i].status = "completed" /\ trainingSteps[i].progress = Fin(100)
  /\ pc = "done" => completions = 1

\* what a step of a run may do to the step list
StepsAdvance ==
  runner \in {"detailed", "basic"} =>
    /\ Len(trainingSteps') = Len(trainingSteps)
    /\ \A i \in 1..Len(trainingSteps) :
         /\ trainingSteps'[i].id = trainingSteps[i].id
         /\ StatusRank(trainingSteps'[i].status) >= StatusRank(trainingSteps[i].status)
    /\ completions' > completions =>
         \A i \in 1..Len(trainingSteps) : trainingSteps'[i].status = "completed"

\* C23: one startTraining call processes the seven steps in their fixed order: at
\* any moment at most one step is 'processing', a step is 'processing' only when
\* all earlier steps are 'completed', a step's status only moves
\* pending -> processing -> completed, and onTrainingComplete is invoked once,
\* only after all seven steps are completed with progress 100.
C23_StepsInFixedOrder ==
  /\ [](runner \in {"detailed", "basic"} => StepsInOrder)
  /\ [][StepsAdvance]_vars

C23_Witness ==
  /\ runner = "detailed"
  /\ epochs = 2
  /\ pc = "done"
  /\ completions = 1
  /\ Len(trainingSteps) = 7
  /\ \A i \in 1..7 : trainingSteps[i].status = "completed" /\ trainingSteps[i].progress = Fin(100)

\* C24: on the Training page, under any interleaving of loadData, the delayed load
\* of handleCustomFileUpload, proceed-to-modeling and training completion,
\* currentPhase never decreases; currentPhase >= 1 implies a non-null dataPreview;
\* currentPhase = 3 implies non-null modelMetrics.
C24_PhaseNeverDecreases ==
  /\ [][currentPhase' >= currentPhase]_vars
  /\ [](currentPhase >= 1 => dataPreview # NullPreview)
  /\ [](currentPhase = 3 => modelMetrics # NullMetrics)

\* C25: on the Prediction page, under any interleaving of interval ticks,
\* Start/Pause and Reset, predictions.length = currentIndex <= realTimeData.length
\* and predictions[i] carries the timestamp and the actual subsidence of
\* realTimeData[i].
C25_PredictionsFollowData ==
  /\ Len(predictions) = currentIndex
  /\ currentIndex <= Len(realTimeData)
  /\ \A i \in 1..Len(predictions) :
       /\ i <= Len(realTimeData)
       /\ predictions[i].timestamp = realTimeData[i].timestamp
       /\ predictions[i].actualSubsidence = realTimeData[i].subsidence

C25_Witness ==
  /\ Len(realTimeData) = 3
  /\ Len(predictions) = 2
  /\ ~isRunning
  /\ predictions[2].timestamp = realTimeData[2].timestamp
  /\ predictions[2].predictedSubsidence # realTimeData[2].subsidence
  /\ realTimeData[1].subsidence # realTimeData[2].subsidence

\* a step that appends a prediction starts in a running page
AppendsOnlyWhileRunning == Len(predictions') > Len(predictions) => isRunning

\* a step that removes predictions is the Reset: it leaves the initial state
ShrinksOnlyByReset ==
  Len(predictions') < Len(predictions) =>
    isRunning' = FALSE /\ predictions' = <<>> /\ currentIndex' = 0

\* C26: a prediction is appended only while isRunning is true; after Pause or Reset
\* none is appended until Start is pressed again; Reset restores isRunning = false,
\* predictions = [], currentIndex = 0; if the page stays running, predictions
\* eventually reaches realTimeData.length and then stops growing.
C26_RunsOnlyWhileRunning ==
  /\ [][AppendsOnlyWhileRunning]_vars
  /\ [][ShrinksOnlyByReset]_vars
  /\ [][resetPrediction => (isRunning' = FALSE /\ predictions' = <<>> /\ currentIndex' = 0)]_vars
  /\ <>[]isRunning => <>[](Len(predictions) = Len(realTimeData))

C26_Witness ==
  /\ isRunning
  /\ Len(realTimeData) = 3
  /\ Len(predictions) = 3
  /\ currentIndex = 3

\* C27: handleFileUpload on k >= 1 files, with the reads completing in any order,
\* invokes onFileUpload at most once, only after all k reads have completed
\* successfully, with contents[i] the text of files[i]; when every read has
\* succeeded onFileUpload has been invoked, also when some content is the empty
\* string.
C27_UploadOnceWithAllContents ==
  /\ Len(uploads) <= 1
  /\ Len(uploads) = 1 =>
       /\ \A i \in 1..Len(files) : reads[i] = "loaded"
       /\ uploads[1].files = files
       /\ uploads[1].contents = files
  /\ (reads # <<>> /\ \A i \in 1..Len(files) : reads[i] = "loaded") => Len(uploads) = 1

\* a field that is not a non-zero number
NoNumber == [k |-> "none"]

\* the numbers written in columns 0 to 3 of a line of the modelled texts
Declared(line) ==
  CASE line = RowNumbers -> <<Fin(1), Fin(700), Fin(93), Fin(50)>>
    [] line = RowSpaced -> <<Fin(2), Rat(15, 2), Fin(-3), NoNumber>>
    [] line = RowWords -> <<Fin(3), NoNumber, NoNumber, NoNumber>>
    [] line = RowShort -> <<Fin(4), Fin(2), NoNumber, NoNumber>>
    [] line = RowHigh -> <<Fin(5), Fin(1), Fin(1), Fin(200)>>
    [] line = RowInfinity -> <<Fin(6), Fin(1), Fin(1), NoNumber>>
    [] OTHER -> <<NoNumber, NoNumber, NoNumber, NoNumber>>

Carried(declared, value) == declared # NoNumber => value = declared

\* the coordinates of the record are those written in the line from column `first`
CarriedFrom(line, first, point) ==
  /\ Carried(Declared(line)[first + 1], point.easting)
  /\ Carried(Declared(line)[first + 2], point.northing)
  /\ Carried(Declared(line)[first + 3], point.height)

C29_UpdateTouchesOneStep ==
  lastUpdate # NoCall =>
    /\ Len(trainingSteps) = Len(stepsBefore)
    /\ \A i \in 1..Len(stepsBefore) :
         IF stepsBefore[i].id = lastUpdate.stepId
         THEN /\ DOMAIN trainingSteps[i] = DOMAIN stepsBefore[i] \cup DOMAIN lastUpdate.update
              /\ \A f \in DOMAIN lastUpdate.update :
                   trainingSteps[i][f] = lastUpdate.update[f]
              /\ \A f \in DOMAIN stepsBefore[i] \ DOMAIN lastUpdate.update :
                   trainingSteps[i][f] = stepsBefore[i][f]
         ELSE trainingSteps[i] = stepsBefore[i]
    /\ (\A i \in 1..Len(stepsBefore) : stepsBefore[i].id # lastUpdate.stepId) =>
         trainingSteps = stepsBefore

C29_Witness ==
  /\ lastUpdate # NoCall
  /\ lastUpdate.stepId = "model-training"
  /\ lastUpdate.update = [progress |-> Fin(50)]
  /\ stepsBefore[6].status = "completed"
  /\ trainingSteps[6].status = "completed"
  /\ trainingSteps[6].progress = Fin(50)
  /\ trainingSteps[1].status = "processing"
  /\ trainingSteps[2].status = "pending"

\* the levels in the filter
FilterSet(filter) == {filter[i] : i \in 1..Len(filter)}

\* C30: under any sequence of toggleRiskFilter calls the filter never holds a level
\* twice; a level is in the filter exactly when it was toggled an even number of
\* times (starting with all four); toggling a level twice restores the same set;
\* filteredPoints is exactly the points whose riskLevel is in the filter.
C30_FilterTogglesLevels ==
  /\ \A i \in 1..Len(riskFilter) : \A j \in 1..Len(riskFilter) :
       i # j => riskFilter[i] # riskFilter[j]
  /\ \A level \in RiskKeys : level \in FilterSet(riskFilter) <=> ~toggled[level]
  /\ \A level \in RiskKeys :
       FilterSet(toggleRiskFilter(toggleRiskFilter(riskFilter, level), level))
         = FilterSet(riskFilter)
  /\ LET shown == filteredPoints(subsidencePoints, riskFilter)
     IN  /\ \A k \in 1..Len(shown) : shown[k].riskLevel \in FilterSet(riskFilter)
         /\ \A i \in 1..Len(subsidencePoints) :
              subsidencePoints[i].riskLevel \in FilterSet(riskFilter) =>
                \E k \in 1..Len(shown) : shown[k] = subsidencePoints[i]
         /\ \A k \in 1..Len(shown) : \E i \in 1..Len(subsidencePoints) :
              shown[k] = subsidencePoints[i]
         /\ Len(shown) =
              Cardinality({i \in 1..Len(subsidencePoints) :
                             subsidencePoints[i].riskLevel \in FilterSet(riskFilter)})

C30_Witness ==
  /\ riskFilter = <<"medium", "critical", "low">>
  /\ toggled["high"] /\ ~toggled["low"]
  /\ Len(subsidencePoints) = 3
  /\ subsidencePoints[2].riskLevel = "high"
  /\ Len(filteredPoints(subsidencePoints, riskFilter)) = 2

====
